---- MODULE Spec2Model ----
(***************************************************************************)
(* Authentication and session-token lifecycle of certify-backend:          *)
(* authService (Login, Refresh, Logout, ParseToken), jwtService and the    *)
(* Redis tokenRepository.  Every HTTP request runs in its own goroutine;   *)
(* a request is modelled as a slot whose pc advances at each store or      *)
(* database call, so that requests interleave at those calls.              *)
(***************************************************************************)
EXTENDS Integers, Sequences, FiniteSets, TLC

\* ------------------------------------------------------------------ bounds
MaxTime == 3        \* the clock runs from 0 to MaxTime (ticks of half a second)
MaxRand == 2        \* number of draws the entropy source serves
AccessTTL == 2      \* configured access-token lifetime, in clock units
RefreshTTL == 3     \* configured refresh-token lifetime, in clock units
MaxUserID == 3      \* largest id the users sequence hands out
MaxCompanyID == 3   \* largest id the companies sequence hands out
MaxDocID == 3       \* largest id the documents sequence hands out
MaxScans == 1       \* number of verification_history rows that are written

\* request slots: the sequential specification uses the first only, the
\* concurrent one both
Slots == {1, 2}

SeqSlots == {1}

\* ------------------------------------------------------------------ errs
ErrorTypeInternal == "INTERNAL_ERROR"
ErrorTypeNotFound == "NOT_FOUND"
ErrorTypeUnauthorized == "UNAUTHORIZED"
ErrorTypeValidation == "VALIDATION_ERROR"
ErrorTypeBadRequest == "BAD_REQUEST"
ErrorTypeAlreadyExists == "ALREADY_EXISTS"

\* the nil error
NoError == [type |-> "nil", message |-> ""]

New(errType, message) == [type |-> errType, message |-> message]

InternalError(message) == New(ErrorTypeInternal, message)

UnauthorizedError(message) == New(ErrorTypeUnauthorized, message)

\* fmt.Sprintf("%s not found", item), with the item's text kept as given
AlreadyExistsError(item) ==
    New(ErrorTypeAlreadyExists,
        CASE item = "email" -> "email already exists"
          [] OTHER -> "already exists")

NotFoundError(item) ==
    New(ErrorTypeNotFound,
        CASE item = "refresh token" -> "refresh token not found"
          [] item = "user" -> "user not found"
          [] item = "company" -> "company not found"
          [] OTHER -> "not found")

StatusCode(e) ==
    CASE e.type = ErrorTypeValidation -> 400
      [] e.type = ErrorTypeBadRequest -> 400
      [] e.type = ErrorTypeNotFound -> 404
      [] e.type = ErrorTypeUnauthorized -> 401
      [] e.type = ErrorTypeAlreadyExists -> 409
      [] OTHER -> 500

\* ------------------------------------------------------------------ strings
\* A Go string is a tuple that records how its text was produced.
EmptyString == <<>>

\* strconv.Itoa: the decimal text of n
Itoa(n) == <<"dec", n>>

\* sha256 + hex of s: a digest is never the string it was taken of, and
\* two strings have the same digest only when they are the same string
SHA256Hex(s) == <<"sha256", s>>

\* the n-th 64-byte draw of crypto/rand, base64url encoded
RandomBase64(n) == <<"rand", n>>

\* a client-made string that the server never produced
JunkString == <<"junk">>

\* strconv.Atoi: the number a decimal text stands for; any other text is an
\* error and gives 0
Atoi(str) ==
    IF Len(str) = 2 /\ str[1] = "dec"
    THEN [n |-> str[2], ok |-> TRUE]
    ELSE [n |-> 0, ok |-> FALSE]

\* bcrypt.GenerateFromPassword / CompareHashAndPassword
BcryptHash(password) == <<"bcrypt", password>>

CompareHashAndPassword(hash, password) == hash = BcryptHash(password)

\* ------------------------------------------------------------------ entity
NoPayload == [user_id |-> EmptyString, role |-> "", company_id |-> EmptyString]

\* the rows of table users when the service starts; passwords are stored
\* hashed
Directory ==
    { [id |-> 1, role |-> "admin", first_name |-> "Ann", email |-> "a@x.com",
       password |-> BcryptHash("pw-a"), company_id |-> 1],
      [id |-> 2, role |-> "employee", first_name |-> "Bob", email |-> "b@y.com",
       password |-> BcryptHash("pw-b"), company_id |-> 2] }

Emails == {"a@x.com", "b@y.com", "nobody@x.com"}

Passwords == {"pw-a", "pw-b"}

NoUser == [id |-> 0, role |-> "", first_name |-> "", email |-> "",
           password |-> EmptyString, company_id |-> 0]

\* userService.GetUserByEmail over userRepository.GetUserByEmail on the
\* rows of table users: sql.ErrNoRows becomes NotFound, any other database
\* error Internal
GetUserByEmail(table, email, dbOk) ==
    IF ~dbOk
    THEN [user |-> NoUser, err |-> InternalError("error getting user by email")]
    ELSE IF \E u \in table : u.email = email
         THEN [user |-> CHOOSE u \in table : u.email = email,
               err |-> NoError]
         ELSE [user |-> NoUser, err |-> NotFoundError("user")]

TokenPayloadOf(user) ==
    [user_id |-> Itoa(user.id), role |-> user.role,
     company_id |-> Itoa(user.company_id)]

\* ------------------------------------------------------------------ postgres
\* the errors a query can end with
ErrNil == "nil"

ErrNoRows == "sql: no rows in result set"

ErrUniqueViolation == "pq: duplicate key value violates unique constraint (23505)"

ErrDatabase == "database failure"

\* isUniqueConstraintError
isUniqueConstraintError(err) == err = ErrUniqueViolation

\* userRepository.CreateUser: INSERT ... RETURNING id with the sequence value
\* id; email is UNIQUE and company_id references companies
CreateUser(table, comps, id, user, dbOk) ==
    IF ~dbOk
    THEN [users |-> table, id |-> 0, err |-> ErrDatabase]
    ELSE IF \E u \in table : u.email = user.email
         THEN [users |-> table, id |-> 0, err |-> ErrUniqueViolation]
         ELSE IF user.company_id \notin comps
              THEN [users |-> table, id |-> 0, err |-> ErrDatabase]
              ELSE [users |-> table \cup {[user EXCEPT !.id = id]}, id |-> id,
                    err |-> ErrNil]

\* userRepository.GetUserByID
GetUserByID(table, id, dbOk) ==
    IF ~dbOk
    THEN [user |-> NoUser, err |-> ErrDatabase]
    ELSE IF \E u \in table : u.id = id
         THEN [user |-> CHOOSE u \in table : u.id = id, err |-> ErrNil]
         ELSE [user |-> NoUser, err |-> ErrNoRows]

\* userRepository.GetUserByEmail with the query's own error
QueryUserByEmail(table, email, dbOk) ==
    IF ~dbOk
    THEN [user |-> NoUser, err |-> ErrDatabase]
    ELSE IF \E u \in table : u.email = email
         THEN [user |-> CHOOSE u \in table : u.email = email, err |-> ErrNil]
         ELSE [user |-> NoUser, err |-> ErrNoRows]

\* userRepository.UpdateUser: only the non-empty fields are set; with no
\* field to set no query is sent
RepoUpdateUser(table, id, user, dbOk) ==
    IF user.first_name = "" /\ user.email = ""
    THEN [users |-> table, err |-> ErrNil]
    ELSE IF ~dbOk
         THEN [users |-> table, err |-> ErrDatabase]
         ELSE IF ~(\E u \in table : u.id = id)
              THEN [users |-> table, err |-> ErrNoRows]
              ELSE IF user.email # ""
                      /\ \E u \in table : u.id # id /\ u.email = user.email
                   THEN [users |-> table, err |-> ErrUniqueViolation]
                   ELSE [users |->
                            {IF u.id = id
                             THEN [u EXCEPT
                                     !.first_name = IF user.first_name # ""
                                                    THEN user.first_name ELSE @,
                                     !.email = IF user.email # ""
                                               THEN user.email ELSE @]
                             ELSE u : u \in table},
                         err |-> ErrNil]

\* userRepository.DeleteUser: deleting no row is not an error
RepoDeleteUser(table, id, dbOk) ==
    IF ~dbOk
    THEN [users |-> table, err |-> ErrDatabase]
    ELSE [users |-> {u \in table : u.id # id}, err |-> ErrNil]

\* companyRepository.CreateCompany with the sequence value id
CreateCompany(comps, id, dbOk) ==
    IF ~dbOk
    THEN [companies |-> comps, id |-> 0, err |-> ErrDatabase]
    ELSE [companies |-> comps \cup {id}, id |-> id, err |-> ErrNil]

\* companyRepository.GetCompanyByID
GetCompanyByID(comps, id, dbOk) ==
    IF ~dbOk THEN ErrDatabase
    ELSE IF id \in comps THEN ErrNil ELSE ErrNoRows

\* companyRepository.DeleteCompany: the users of the company go with it
\* (ON DELETE CASCADE)
DeleteCompany(comps, table, id, dbOk) ==
    IF ~dbOk
    THEN [companies |-> comps, users |-> table, err |-> ErrDatabase]
    ELSE [companies |-> comps \ {id},
          users |-> {u \in table : u.company_id # id}, err |-> ErrNil]

\* ------------------------------------------------------------------ jwtService
AccessTokenSecret == "server-secret"

ForeignSecret == "other-secret"

ZeroClaims == [user_id |-> EmptyString, role |-> "", company_id |-> EmptyString,
               iat |-> 0, exp |-> 0]

\* HMAC-SHA256 of the claims under a key: equal only for equal key and claims
HS256(secret, claims) == [key |-> secret, over |-> claims]

NoSig == [key |-> "", over |-> ZeroClaims]

\* the empty string where an access token is expected
NoToken == [form |-> "empty", claims |-> ZeroClaims, sig |-> NoSig]

\* a string that is not three base64 segments
GarbageToken == [form |-> "garbage", claims |-> ZeroClaims, sig |-> NoSig]

NoPair == [access |-> NoToken, refresh |-> EmptyString]

NoRefreshToken == [user_id |-> EmptyString, token |-> EmptyString, expires_in |-> 0]

\* jwt.TimePrecision (one second) in clock ticks
TimePrecision == 2

\* jwt.NewNumericDate: the instant truncated to a whole second
NewNumericDate(t) == t - (t % TimePrecision)

\* jwtService.GenerateAccessToken at clock reading t; signOk is the outcome
\* of SignedString
GenerateAccessToken(payload, t, signOk) ==
    LET tokenClaims == [user_id |-> payload.user_id, role |-> payload.role,
                        company_id |-> payload.company_id,
                        iat |-> NewNumericDate(t),
                        exp |-> NewNumericDate(t + AccessTTL)]
    IN IF signOk
       THEN [token |-> [form |-> "jwt", claims |-> tokenClaims,
                        sig |-> HS256(AccessTokenSecret, tokenClaims)],
             ok |-> TRUE]
       ELSE [token |-> NoToken, ok |-> FALSE]

\* GenerateRefreshToken with a lifetime one second short of the configured one
GenerateRefreshToken_ShortTTL(payload, n, randOk) ==
    IF ~randOk
    THEN [token |-> NoRefreshToken,
          err |-> InternalError("error generating refresh token")]
    ELSE LET str == RandomBase64(n)
             hash == SHA256Hex(str)
         IN [token |-> [user_id |-> payload.user_id, token |-> hash,
                        expires_in |-> RefreshTTL - 1],
             err |-> NoError]

\* jwtService.GenerateRefreshToken with the n-th draw of the entropy source;
\* randOk is the outcome of rand.Read
GenerateRefreshToken(payload, n, randOk) ==
    IF ~randOk
    THEN [token |-> NoRefreshToken,
          err |-> InternalError("error generating refresh token")]
    ELSE LET str == RandomBase64(n)
             hash == SHA256Hex(str)
         IN [token |-> [user_id |-> payload.user_id, token |-> hash,
                        expires_in |-> RefreshTTL],
             err |-> NoError]

\* jwt.ParseWithClaims with the server's key at clock reading t: the token
\* must have three segments, carry the HMAC of its own claims under the
\* server's key, and t must be before its exp
JwtParseOk(token, t) ==
    /\ token.form = "jwt"
    /\ token.sig = HS256(AccessTokenSecret, token.claims)
    /\ t < token.claims.exp

\* jwtService.ParseAccessToken at clock reading t
ParseAccessToken(token, t) ==
    IF ~JwtParseOk(token, t)
    THEN [payload |-> NoPayload, expTime |-> 0,
          err |-> InternalError("error parsing access token")]
    ELSE [payload |-> [user_id |-> token.claims.user_id,
                       role |-> token.claims.role,
                       company_id |-> token.claims.company_id],
          expTime |-> token.claims.exp,
          err |-> NoError]

\* ------------------------------------------------------------------ redis
\* One namespace of the Redis keyspace ("refresh:" or "blacklist:"): a
\* function from the key after the prefix to its value and expiry instant.
EmptyStore == [k \in {} |-> [val |-> EmptyString, exp |-> 0]]

RedisSet(store, key, val, ttl, t) ==
    [k \in DOMAIN store \cup {key} |->
        IF k = key THEN [val |-> val, exp |-> t + ttl] ELSE store[k]]

RedisDel(store, key) == [k \in DOMAIN store \ {key} |-> store[k]]

RedisExists(store, key) == key \in DOMAIN store

\* keys whose TTL has run out at instant t are gone
RedisExpire(store, t) ==
    [k \in {x \in DOMAIN store : store[x].exp > t} |-> store[k]]

\* ------------------------------------------------------------------ tokenRepository
\* In each operation ok is the outcome of the Redis round trip; a failed
\* round trip changes nothing in the store.
SetRefreshToken(store, token, t, ok) ==
    IF ok
    THEN [store |-> RedisSet(store, token.token, token.user_id, token.expires_in, t),
          err |-> NoError]
    ELSE [store |-> store,
          err |-> InternalError("error setting refresh token to database")]

\* DeleteRefreshToken that reports a key that is not there
DeleteRefreshToken_Strict(store, tokenHash, ok) ==
    IF ok
    THEN IF RedisExists(store, tokenHash)
         THEN [store |-> RedisDel(store, tokenHash), err |-> NoError]
         ELSE [store |-> store, err |-> NotFoundError("refresh token")]
    ELSE [store |-> store,
          err |-> InternalError("error deleting refresh token from database")]

DeleteRefreshToken(store, tokenHash, ok) ==
    IF ok
    THEN [store |-> RedisDel(store, tokenHash), err |-> NoError]
    ELSE [store |-> store,
          err |-> InternalError("error deleting refresh token from database")]

\* BlacklistAccessToken that gives every entry the full access-token lifetime
BlacklistAccessToken_FullTTL(store, tokenHash, remaining, t, ok) ==
    IF ok
    THEN [store |-> RedisSet(store, tokenHash, <<"token">>, AccessTTL, t),
          err |-> NoError]
    ELSE [store |-> store,
          err |-> InternalError("error blacklisting access token")]

BlacklistAccessToken(store, tokenHash, remaining, t, ok) ==
    IF ok
    THEN [store |-> RedisSet(store, tokenHash, <<"token">>, remaining, t),
          err |-> NoError]
    ELSE [store |-> store,
          err |-> InternalError("error blacklisting access token")]

IsAccessTokenBlacklisted(store, tokenHash, ok) ==
    IF ok
    THEN [exists |-> RedisExists(store, tokenHash), err |-> NoError]
    ELSE [exists |-> FALSE, err |-> InternalError("error validating token")]

\* JsonUnmarshal that takes a decimal text for the payload's user id
JsonUnmarshal_Lenient(data) ==
    IF Len(data) = 2 /\ data[1] = "obj"
    THEN [payload |-> data[2], ok |-> TRUE]
    ELSE IF Len(data) = 2 /\ data[1] = "dec"
         THEN [payload |-> [user_id |-> data, role |-> "",
                            company_id |-> EmptyString],
               ok |-> TRUE]
         ELSE [payload |-> NoPayload, ok |-> FALSE]

\* json.Unmarshal of a text into a TokenPayload struct: only the text of a
\* JSON object, <<"obj", fields>>, decodes; a decimal text is a JSON number
\* and is rejected, the empty text is rejected
JsonUnmarshal(data) ==
    IF Len(data) = 2 /\ data[1] = "obj"
    THEN [payload |-> data[2], ok |-> TRUE]
    ELSE [payload |-> NoPayload, ok |-> FALSE]

\* FetchUserFromRefreshToken that reports a missing key as a store failure
FetchUserFromRefreshToken_NilAsFailure(store, tokenHash, ok) ==
    IF ~ok \/ ~RedisExists(store, tokenHash)
    THEN [payload |-> NoPayload,
          err |-> InternalError("error fetching user id from db")]
    ELSE LET u == JsonUnmarshal(store[tokenHash].val)
         IN IF u.ok
            THEN [payload |-> u.payload, err |-> NoError]
            ELSE [payload |-> NoPayload,
                  err |-> InternalError("error unmarshaling token payload")]

FetchUserFromRefreshToken(store, tokenHash, ok) ==
    IF ~ok
    THEN [payload |-> NoPayload,
          err |-> InternalError("error fetching user id from db")]
    ELSE IF ~RedisExists(store, tokenHash)
         THEN [payload |-> NoPayload, err |-> NotFoundError("refresh token")]
         ELSE LET u == JsonUnmarshal(store[tokenHash].val)
              IN IF u.ok
                 THEN [payload |-> u.payload, err |-> NoError]
                 ELSE [payload |-> NoPayload,
                       err |-> InternalError("error unmarshaling token payload")]

\* ------------------------------------------------------------------ authService
\* LoginCredentials with the lookup's own error handed to the caller
LoginCredentials_Leaky(table, email, password, dbOk) ==
    LET g == GetUserByEmail(table, email, dbOk)
    IN IF g.err # NoError
       THEN [payload |-> NoPayload, err |-> g.err]
       ELSE IF ~CompareHashAndPassword(g.user.password, password)
            THEN [payload |-> NoPayload,
                  err |-> UnauthorizedError("invalid credentials")]
            ELSE [payload |-> TokenPayloadOf(g.user), err |-> NoError]

\* Login, the credential check: the user lookup and the bcrypt comparison
LoginCredentials(table, email, password, dbOk) ==
    LET g == GetUserByEmail(table, email, dbOk)
    IN IF g.err # NoError
       THEN [payload |-> NoPayload, err |-> UnauthorizedError("invalid credentials")]
       ELSE IF ~CompareHashAndPassword(g.user.password, password)
            THEN [payload |-> NoPayload,
                  err |-> UnauthorizedError("invalid credentials")]
            ELSE [payload |-> TokenPayloadOf(g.user), err |-> NoError]

\* LoginIssue with the refresh entry written before the access token is
\* signed
LoginIssue_PersistFirst(payload, store, n, t, signOk, randOk, storeOk) ==
    LET g == GenerateRefreshToken(payload, n, randOk)
        w == SetRefreshToken(store, g.token, t, storeOk)
        a == GenerateAccessToken(payload, t, signOk)
    IN IF g.err # NoError
       THEN [pair |-> NoPair, store |-> store, n |-> n, gen |-> EmptyString,
             err |-> InternalError("error generating refresh token")]
       ELSE IF w.err # NoError
            THEN [pair |-> NoPair, store |-> w.store, n |-> n + 1,
                  gen |-> g.token.token,
                  err |-> InternalError("error setting refresh token")]
            ELSE IF ~a.ok
                 THEN [pair |-> NoPair, store |-> w.store, n |-> n + 1,
                       gen |-> g.token.token,
                       err |-> InternalError("error generating access token")]
                 ELSE [pair |-> [access |-> a.token, refresh |-> g.token.token],
                       store |-> w.store, n |-> n + 1, gen |-> g.token.token,
                       err |-> NoError]

\* Login, the issuance tail: access token, refresh token, then the refresh
\* entry; store is the refresh namespace, n the next draw, t the clock
LoginIssue(payload, store, n, t, signOk, randOk, storeOk) ==
    LET a == GenerateAccessToken(payload, t, signOk)
        g == GenerateRefreshToken(payload, n, randOk)
        w == SetRefreshToken(store, g.token, t, storeOk)
    IN IF ~a.ok
       THEN [pair |-> NoPair, store |-> store, n |-> n, gen |-> EmptyString,
             err |-> InternalError("error generating access token")]
       ELSE IF g.err # NoError
            THEN [pair |-> NoPair, store |-> store, n |-> n,
                  gen |-> EmptyString,
                  err |-> InternalError("error generating refresh token")]
            ELSE IF w.err # NoError
                 THEN [pair |-> NoPair, store |-> w.store, n |-> n + 1,
                       gen |-> g.token.token,
                       err |-> InternalError("error setting refresh token")]
                 ELSE [pair |-> [access |-> a.token, refresh |-> g.token.token],
                       store |-> w.store, n |-> n + 1, gen |-> g.token.token,
                       err |-> NoError]

\* Refresh, first store call: the presented string is looked up as it is,
\* and the repository's error is returned unchanged
RefreshFetch(store, refreshToken, storeOk) ==
    FetchUserFromRefreshToken(store, refreshToken, storeOk)

\* Refresh, second store call
RefreshDelete(store, refreshToken, storeOk) ==
    LET d == DeleteRefreshToken(store, refreshToken, storeOk)
    IN IF d.err # NoError
       THEN [store |-> d.store, err |-> InternalError("error deleting refresh token")]
       ELSE [store |-> d.store, err |-> NoError]

\* Refresh, the reissuance tail
RefreshIssue(payload, store, n, t, signOk, randOk, storeOk) ==
    LET a == GenerateAccessToken(payload, t, signOk)
        g == GenerateRefreshToken(payload, n, randOk)
        w == SetRefreshToken(store, g.token, t, storeOk)
    IN IF ~a.ok
       THEN [pair |-> NoPair, store |-> store, n |-> n, gen |-> EmptyString,
             err |-> InternalError("error generating access token")]
       ELSE IF g.err # NoError
            THEN [pair |-> NoPair, store |-> store, n |-> n,
                  gen |-> EmptyString,
                  err |-> InternalError("error generating refresh token")]
            ELSE IF w.err # NoError
                 THEN [pair |-> NoPair, store |-> w.store, n |-> n + 1,
                       gen |-> g.token.token,
                       err |-> InternalError("error setting refresh token")]
                 ELSE [pair |-> [access |-> a.token, refresh |-> g.token.token],
                       store |-> w.store, n |-> n + 1, gen |-> g.token.token,
                       err |-> NoError]

\* LogoutDeleteRefresh that digests the presented string before the delete
LogoutDeleteRefresh_Digest(store, refreshToken, storeOk) ==
    DeleteRefreshToken(store, SHA256Hex(refreshToken), storeOk)

\* Logout, first store call: the repository's error is returned unchanged
LogoutDeleteRefresh(store, refreshToken, storeOk) ==
    DeleteRefreshToken(store, refreshToken, storeOk)

\* Logout, the access-token parse: its error is returned unchanged
LogoutParse(accessToken, t) == ParseAccessToken(accessToken, t)

\* LogoutBlacklist with the TTL one second short of the remaining lifetime
LogoutBlacklist_ShortTTL(store, accessToken, expTime, t, storeOk) ==
    LET remaining == expTime - t
    IN IF remaining > 0
       THEN BlacklistAccessToken(store, SHA256Hex(accessToken), remaining - 1, t, storeOk)
       ELSE [store |-> store, err |-> NoError]

\* Logout, the denylist write at clock reading t: only for a positive
\* remaining lifetime; store is the blacklist namespace
LogoutBlacklist(store, accessToken, expTime, t, storeOk) ==
    LET remaining == expTime - t
    IN IF remaining > 0
       THEN BlacklistAccessToken(store, SHA256Hex(accessToken), remaining, t, storeOk)
       ELSE [store |-> store, err |-> NoError]

\* ParseToken, the denylist check; go is TRUE when the token goes on to
\* signature verification
ParseTokenCheck(store, token, storeOk) ==
    LET b == IsAccessTokenBlacklisted(store, SHA256Hex(token), storeOk)
    IN IF b.err # NoError
       THEN [go |-> FALSE, err |-> UnauthorizedError("invalid token")]
       ELSE IF b.exists
            THEN [go |-> FALSE, err |-> UnauthorizedError("token has been revoked")]
            ELSE [go |-> TRUE, err |-> NoError]

\* ParseTokenVerify with the parser's error handed to the caller unchanged
ParseTokenVerify_PassThrough(token, t) ==
    LET p == ParseAccessToken(token, t)
    IN IF p.err # NoError
       THEN [payload |-> NoPayload, err |-> p.err]
       ELSE [payload |-> p.payload, err |-> NoError]

\* ParseToken, the verification at clock reading t
ParseTokenVerify(token, t) ==
    LET p == ParseAccessToken(token, t)
    IN IF p.err # NoError
       THEN [payload |-> NoPayload, err |-> UnauthorizedError("invalid token")]
       ELSE [payload |-> p.payload, err |-> NoError]

\* ------------------------------------------------------------------ userService
\* RegisterEmployee, the company check
RegisterEmployeeCompany(comps, companyID, dbOk) ==
    LET e == GetCompanyByID(comps, companyID, dbOk)
    IN IF e = ErrNil THEN NoError
       ELSE IF e = ErrNoRows THEN NotFoundError("company")
       ELSE InternalError("error getting company")

\* the row a registration inserts
NewUser(role, email, password, companyID) ==
    [id |-> 0, role |-> role, first_name |-> "New", email |-> email,
     password |-> BcryptHash(password), company_id |-> companyID]

\* RegisterEmployee_Create that reports every failed INSERT as Internal
RegisterEmployeeCreate_NoUniqueCheck(table, comps, id, email, password, companyID, hashOk, dbOk) ==
    LET c == CreateUser(table, comps, id,
                        NewUser("employee", email, password, companyID), dbOk)
    IN IF ~hashOk
       THEN [users |-> table, payload |-> NoPayload,
             err |-> InternalError("error hashing password")]
       ELSE IF c.err # ErrNil
            THEN [users |-> c.users, payload |-> NoPayload,
                  err |-> InternalError("error creating user")]
            ELSE [users |-> c.users,
                  payload |-> [user_id |-> Itoa(c.id), role |-> "employee",
                               company_id |-> Itoa(companyID)],
                  err |-> NoError]

\* RegisterEmployee, the password hash and the INSERT of the user
RegisterEmployeeCreate(table, comps, id, email, password, companyID, hashOk, dbOk) ==
    LET c == CreateUser(table, comps, id,
                        NewUser("employee", email, password, companyID), dbOk)
    IN IF ~hashOk
       THEN [users |-> table, payload |-> NoPayload,
             err |-> InternalError("error hashing password")]
       ELSE IF c.err # ErrNil
            THEN [users |-> c.users, payload |-> NoPayload,
                  err |-> IF isUniqueConstraintError(c.err)
                          THEN AlreadyExistsError("email")
                          ELSE InternalError("error creating user")]
            ELSE [users |-> c.users,
                  payload |-> [user_id |-> Itoa(c.id), role |-> "employee",
                               company_id |-> Itoa(companyID)],
                  err |-> NoError]

\* CreateCompanyWithAdmin, the INSERT of the company
CompanyCreate(comps, id, dbOk) ==
    LET c == CreateCompany(comps, id, dbOk)
    IN IF c.err # ErrNil
       THEN [companies |-> c.companies, id |-> 0,
             err |-> InternalError("error creating company")]
       ELSE [companies |-> c.companies, id |-> c.id, err |-> NoError]

\* CreateCompanyWithAdmin, the password hash and the INSERT of the admin;
\* on an error the company is deleted before the error is returned
AdminCreate(table, comps, id, email, password, companyID, hashOk, dbOk) ==
    LET c == CreateUser(table, comps, id,
                        NewUser("admin", email, password, companyID), dbOk)
    IN IF ~hashOk
       THEN [users |-> table, payload |-> NoPayload,
             err |-> InternalError("error hashing password")]
       ELSE IF c.err # ErrNil
            THEN [users |-> c.users, payload |-> NoPayload,
                  err |-> IF isUniqueConstraintError(c.err)
                          THEN AlreadyExistsError("email")
                          ELSE InternalError("error creating admin user")]
            ELSE [users |-> c.users,
                  payload |-> [user_id |-> Itoa(c.id), role |-> "admin",
                               company_id |-> Itoa(companyID)],
                  err |-> NoError]

\* UpdateUserTarget without the company comparison for an admin
UpdateUserTarget_AnyAdmin(table, id, requesterRole, requesterCompanyID, requesterID, dbOk) ==
    LET g == GetUserByID(table, id, dbOk)
    IN IF g.err = ErrNoRows THEN NotFoundError("user")
       ELSE IF g.err # ErrNil THEN InternalError("error getting user")
       ELSE IF id # requesterID
            THEN IF requesterRole # "admin"
                 THEN UnauthorizedError("only admins can update other users")
                 ELSE NoError
            ELSE IF g.user.company_id # requesterCompanyID
                 THEN UnauthorizedError("user company mismatch")
                 ELSE NoError

\* UpdateUser, the target lookup and the authorisation
UpdateUserTarget(table, id, requesterRole, requesterCompanyID, requesterID, dbOk) ==
    LET g == GetUserByID(table, id, dbOk)
    IN IF g.err = ErrNoRows THEN NotFoundError("user")
       ELSE IF g.err # ErrNil THEN InternalError("error getting user")
       ELSE IF id # requesterID
            THEN IF requesterRole # "admin"
                 THEN UnauthorizedError("only admins can update other users")
                 ELSE IF g.user.company_id # requesterCompanyID
                      THEN UnauthorizedError("can only update users from the same company")
                      ELSE NoError
            ELSE IF g.user.company_id # requesterCompanyID
                 THEN UnauthorizedError("user company mismatch")
                 ELSE NoError

\* UpdateUser, the check that the new email is not another user's
UpdateUserEmail(table, id, email, dbOk) ==
    LET g == QueryUserByEmail(table, email, dbOk)
    IN IF g.err = ErrNil /\ g.user.id # id THEN AlreadyExistsError("email")
       ELSE IF g.err # ErrNil /\ g.err # ErrNoRows
            THEN InternalError("error checking email")
            ELSE NoError

\* UpdateUser, the UPDATE
UpdateUserWrite(table, id, upd, dbOk) ==
    LET w == RepoUpdateUser(table, id, upd, dbOk)
    IN [users |-> w.users,
        err |-> IF w.err = ErrNil THEN NoError
                ELSE IF w.err = ErrNoRows THEN NotFoundError("user")
                ELSE InternalError("error updating user")]

\* DeleteUser, the role check, the target lookup and the company check
DeleteUserTarget(table, id, requesterRole, requesterCompanyID, dbOk) ==
    LET g == GetUserByID(table, id, dbOk)
    IN IF requesterRole # "admin"
       THEN UnauthorizedError("only admins can delete users")
       ELSE IF g.err = ErrNoRows THEN NotFoundError("user")
       ELSE IF g.err # ErrNil THEN InternalError("error getting user")
       ELSE IF g.user.company_id # requesterCompanyID
            THEN UnauthorizedError("can only delete users from the same company")
            ELSE NoError

\* DeleteUser, the DELETE
DeleteUserWrite(table, id, dbOk) ==
    LET w == RepoDeleteUser(table, id, dbOk)
    IN [users |-> w.users,
        err |-> IF w.err = ErrNil THEN NoError
                ELSE IF w.err = ErrNoRows THEN NotFoundError("user")
                ELSE InternalError("error deleting user")]

\* ------------------------------------------------------------------ documents
DocumentStatusGreen == "green"

DocumentStatusYellow == "yellow"

DocumentStatusRed == "red"

ExpirationWarningDays == 30

\* 24 hours, in clock units
Day == 24 * 3600 * TimePrecision

NoDocument ==
    [id |-> 0, company_id |-> 0, type |-> "", name |-> "",
     expiration_date |-> 0, scan_count |-> 0]

\* the rows of table documents at the start: one document of each company
Documents ==
    { [id |-> 1, company_id |-> 1, type |-> "license", name |-> "L",
       expiration_date |-> 40 * Day, scan_count |-> 0],
      [id |-> 2, company_id |-> 2, type |-> "license", name |-> "L",
       expiration_date |-> 10 * Day, scan_count |-> 0] }

\* the multipart form of POST /api/documents: the four fields and the file
NoForm ==
    [type |-> "", name |-> "", summary |-> "", expiration_date |-> EmptyString,
     file |-> FALSE]

\* time.RFC3339 text of instant t, and time.Parse of a text in that layout
FormatRFC3339(t) == <<"rfc3339", t>>

TimeParse(str) ==
    IF Len(str) = 2 /\ str[1] = "rfc3339"
    THEN [t |-> str[2], ok |-> TRUE]
    ELSE [t |-> 0, ok |-> FALSE]

\* json.Marshal of a struct, base64.URLEncoding of a text and their
\* inverses: a text that is not base64 does not decode, a text that is not
\* a JSON object does not unmarshal
JsonMarshal(v) == <<"obj", v>>

Base64Encode(data) == <<"b64", data>>

Base64Decode(str) ==
    IF Len(str) = 2 /\ str[1] = "b64"
    THEN [data |-> str[2], ok |-> TRUE]
    ELSE [data |-> EmptyString, ok |-> FALSE]

JsonUnmarshalHash(data) ==
    IF Len(data) = 2 /\ data[1] = "obj"
    THEN [payload |-> data[2], ok |-> TRUE]
    ELSE [payload |-> [id |-> 0, company_id |-> 0, type |-> "", name |-> ""],
          ok |-> FALSE]

\* documentRepository; dbOk is the outcome of the query
InsertDocument(docs, id, doc, dbOk) ==
    IF dbOk
    THEN [docs |-> docs \cup {[doc EXCEPT !.id = id, !.scan_count = 0]},
          err |-> ErrNil]
    ELSE [docs |-> docs, err |-> ErrDatabase]

GetDocumentByID(docs, id, dbOk) ==
    IF ~dbOk THEN [doc |-> NoDocument, err |-> ErrDatabase]
    ELSE IF \E d \in docs : d.id = id
         THEN [doc |-> CHOOSE d \in docs : d.id = id, err |-> ErrNil]
         ELSE [doc |-> NoDocument, err |-> ErrNoRows]

IncrementScanCount(docs, id, dbOk) ==
    IF dbOk
    THEN [docs |-> {IF d.id = id THEN [d EXCEPT !.scan_count = @ + 1] ELSE d :
                       d \in docs},
          err |-> ErrNil]
    ELSE [docs |-> docs, err |-> ErrDatabase]

\* historyRepository.CreateHistory
CreateHistory(hist, id, row, dbOk) ==
    IF dbOk
    THEN [hist |-> hist \cup {[id |-> id, user_id |-> row.user_id,
                               document_id |-> row.document_id,
                               status |-> row.status]},
          err |-> ErrNil]
    ELSE [hist |-> hist, err |-> ErrDatabase]

\* documentService.getDocumentStatus at clock reading t
getDocumentStatus(expirationDate, t) ==
    IF expirationDate < t
    THEN [status |-> DocumentStatusRed, message |-> "Document has expired"]
    ELSE IF (expirationDate - t) \div Day <= ExpirationWarningDays
         THEN [status |-> DocumentStatusYellow,
               message |-> "Document will expire soon"]
         ELSE [status |-> DocumentStatusGreen, message |-> "Document is valid"]

\* documentService.CreateDocument: the INSERT, then the hash of the row's
\* id, company, type and name
CreateDocument(docs, id, docReq, companyID, dbOk) ==
    LET doc == [NoDocument EXCEPT !.company_id = companyID, !.type = docReq.type,
                                  !.name = docReq.name,
                                  !.expiration_date = docReq.expiration_date]
        c == InsertDocument(docs, id, doc, dbOk)
    IN IF c.err # ErrNil
       THEN [docs |-> c.docs, hash |-> EmptyString,
             err |-> InternalError("error creating document")]
       ELSE [docs |-> c.docs,
             hash |-> Base64Encode(JsonMarshal(
                         [id |-> id, company_id |-> companyID,
                          type |-> docReq.type, name |-> docReq.name])),
             err |-> NoError]

\* documentService.VerifyDocument at clock reading t; db.get, db.inc and
\* db.hist are the outcomes of its three queries, histID the next id of the
\* history sequence
VerifyDocument(docs, hist, histID, hash, requesterCompanyID, userID, t, db) ==
    LET getOk == db.get
        incOk == db.inc
        histOk == db.hist
        b == Base64Decode(hash)
        u == JsonUnmarshalHash(b.data)
        g == GetDocumentByID(docs, u.payload.id, getOk)
        st == getDocumentStatus(g.doc.expiration_date, t)
        i == IncrementScanCount(docs, g.doc.id, incOk)
        h == CreateHistory(hist, histID,
                           [user_id |-> userID, document_id |-> g.doc.id,
                            status |-> st.status], histOk)
        none == [doc |-> NoDocument, status |-> DocumentStatusRed,
                 docs |-> docs, hist |-> hist]
    IN IF ~b.ok
       THEN none @@ [message |-> "Invalid document hash",
                     err |-> New(ErrorTypeBadRequest, "invalid document hash")]
       ELSE IF ~u.ok
       THEN none @@ [message |-> "Invalid document hash format",
                     err |-> New(ErrorTypeBadRequest, "invalid document hash format")]
       ELSE IF u.payload.company_id # requesterCompanyID
       THEN none @@ [message |-> "Access denied: you can only verify documents from your own company",
                     err |-> NoError]
       ELSE IF g.err = ErrNoRows
       THEN none @@ [message |-> "Document not found", err |-> NoError]
       ELSE IF g.err # ErrNil
       THEN none @@ [message |-> "Error verifying document",
                     err |-> InternalError("error verifying document")]
       ELSE [doc |-> [g.doc EXCEPT !.scan_count = @ + 1], status |-> st.status,
             message |-> st.message, docs |-> i.docs, hist |-> h.hist,
             err |-> NoError]

\* ------------------------------------------------------------------ routes, middleware
NoRoute == <<>>

PublicRoutes ==
    { <<"POST", "/api/auth/login">>, <<"POST", "/api/auth/register">>,
      <<"POST", "/api/auth/refresh">>, <<"POST", "/api/auth/logout">>,
      <<"POST", "/api/user/company">> }

ProtectedRoutes ==
    { <<"GET", "/api/user/me">>, <<"PUT", "/api/user/me">>,
      <<"GET", "/api/user/:id">>, <<"PUT", "/api/user/:id">>,
      <<"DELETE", "/api/user/:id">>, <<"GET", "/api/user/company">>,
      <<"POST", "/api/documents">>, <<"GET", "/api/documents/verify">> }

\* the handler InitRoutes registers for a route
HandlerOf(route) ==
    CASE route = <<"POST", "/api/auth/login">> -> "Login"
      [] route = <<"POST", "/api/auth/register">> -> "RegisterEmployee"
      [] route = <<"POST", "/api/auth/refresh">> -> "Refresh"
      [] route = <<"POST", "/api/auth/logout">> -> "Logout"
      [] route = <<"POST", "/api/user/company">> -> "CreateCompanyWithAdmin"
      [] route = <<"GET", "/api/user/me">> -> "GetMe"
      [] route = <<"PUT", "/api/user/me">> -> "UpdateMe"
      [] route = <<"GET", "/api/user/:id">> -> "GetUser"
      [] route = <<"PUT", "/api/user/:id">> -> "UpdateUser"
      [] route = <<"DELETE", "/api/user/:id">> -> "DeleteUser"
      [] route = <<"GET", "/api/user/company">> -> "GetUsersByCompany"
      [] route = <<"POST", "/api/documents">> -> "CreateDocument"
      [] route = <<"GET", "/api/documents/verify">> -> "VerifyDocument"
      [] OTHER -> "NoRoute"

\* the handlers chain of a route: the group's middleware, then the handler
HandlersChain(route) ==
    IF route \in ProtectedRoutes
    THEN <<"AuthMiddleware", HandlerOf(route)>>
    ELSE <<HandlerOf(route)>>

\* an Authorization header: a scheme word followed by a token text; the
\* absent header is the empty string
NoHeader == [scheme |-> "", token |-> NoToken]

\* strings.TrimPrefix(authHeader, "Bearer ")
TrimBearer(header) ==
    IF header.scheme = "Bearer" THEN [scheme |-> "", token |-> header.token]
    ELSE header

\* AuthMiddlewareHeader that takes a header without the prefix as the token
AuthMiddlewareHeader_NoPrefixCheck(authHeader) ==
    LET token == TrimBearer(authHeader)
    IN IF authHeader = NoHeader
       THEN [go |-> FALSE, token |-> NoToken,
             err |-> UnauthorizedError("authorization header required")]
       ELSE IF token = NoHeader
            THEN [go |-> FALSE, token |-> NoToken,
                  err |-> UnauthorizedError("invalid token")]
            ELSE [go |-> TRUE, token |-> token.token, err |-> NoError]

\* AuthMiddleware up to the ParseToken call: go is TRUE when ParseToken is
\* called with token
AuthMiddlewareHeader(authHeader) ==
    LET token == TrimBearer(authHeader)
    IN IF authHeader = NoHeader
       THEN [go |-> FALSE, token |-> NoToken,
             err |-> UnauthorizedError("authorization header required")]
       ELSE IF token = NoHeader \/ token = authHeader
            THEN [go |-> FALSE, token |-> NoToken,
                  err |-> UnauthorizedError("invalid token")]
            ELSE [go |-> TRUE, token |-> token.token, err |-> NoError]

\* what AuthMiddleware puts in the request context from the payload
NoRequester == [user_id |-> 0, user_role |-> "", company_id |-> EmptyString]

ContextOf(payload) ==
    [user_id |-> Atoi(payload.user_id).n, user_role |-> payload.role,
     company_id |-> payload.company_id]

\* ------------------------------------------------------------------ state
VARIABLES
    now,            \* the wall clock
    refreshStore,   \* Redis namespace "refresh:"
    blacklistStore, \* Redis namespace "blacklist:"
    nextRand,       \* index of the next draw of the entropy source
    req,            \* the requests in flight, one per slot
    handedRefresh,  \* refresh-token strings returned to clients
    handedAccess,   \* access tokens returned to clients
    loggedOut,      \* refresh strings r of answered successful Logout(a, r)
    revoked,        \* access tokens a of answered successful Logout(a, r)
    users,          \* the rows of table users
    companies,      \* the ids of the rows of table companies
    serial,         \* the next values of the SERIAL id sequences
    documents,      \* the rows of table documents
    history         \* the rows of table verification_history

dirVars == <<users, companies, serial, documents, history>>

vars == <<now, refreshStore, blacklistStore, nextRand, req, handedRefresh,
          handedAccess, loggedOut, revoked, users, companies, serial,
          documents, history>>

\* A request: its operation and arguments, its position, the handler's
\* locals, its result, and what the request has observed so far
\* (invoked: the route's handler was run; usersBefore: the rows of users
\* when it arrived; at: the clock reading at which it issued its tokens;
\* gen: the refresh string it generated; hit: its lookup found the entry;
\* fault: a collaborator call of it failed; wrote: it wrote to the store;
\* stale: its access token was past its exp when it arrived; overlap: another Refresh of the
\* same string was in flight with it; afterLogout / afterRevoke: it arrived
\* after a successful Logout of its refresh string / access token returned;
\* doc, status: the document and status a verification answered with;
\* docsBefore: the rows of documents when the handler was called).
Idle ==
    [op |-> "idle", pc |-> "idle", email |-> "", password |-> "",
     access |-> NoToken, refresh |-> EmptyString,
     route |-> NoRoute, header |-> NoHeader, ctx |-> NoRequester,
     company |-> 0, target |-> 0, upd |-> [first_name |-> "", email |-> ""],
     input |-> NoPayload, payload |-> NoPayload, expTime |-> 0,
     hash |-> EmptyString, form |-> NoForm, doc |-> NoDocument, status |-> "",
     docsBefore |-> {}, res |-> NoError, pair |-> NoPair, invoked |-> FALSE, usersBefore |-> {},
     at |-> 0, gen |-> EmptyString, hit |-> FALSE, fault |-> FALSE, wrote |-> FALSE,
     stale |-> FALSE, overlap |-> FALSE, afterLogout |-> FALSE,
     afterRevoke |-> FALSE]

Finish(r, err) == [r EXCEPT !.pc = "done", !.res = err]

InFlight(s) == req[s].op # "idle" /\ req[s].pc # "done"

Returned(s) == req[s].pc = "done"

\* ParseToken has returned to AuthMiddleware, which has yet to go on
Pending(s) ==
    req[s].route # NoRoute /\ req[s].op = "ParseToken" /\ req[s].pc = "done"

\* refresh strings / access tokens whose Logout has returned success
LoggedOutNow ==
    loggedOut \cup {req[s].refresh : s \in {x \in Slots :
        req[x].op = "Logout" /\ Returned(x) /\ req[x].res = NoError}}

RevokedNow ==
    revoked \cup {req[s].access : s \in {x \in Slots :
        req[x].op = "Logout" /\ Returned(x) /\ req[x].res = NoError}}

\* what a client can put in an Authorization header: a token it was given,
\* that token with its claims edited and the old signature kept, that token
\* re-signed with a key of the client's own, or a string that is no JWT
Tamper(a) ==
    [a EXCEPT !.claims = [a.claims EXCEPT !.role = "admin",
                                          !.exp = a.claims.exp + MaxTime + 1]]

Forge(a) == [a EXCEPT !.sig = HS256(ForeignSecret, a.claims)]

AccessInputs ==
    handedAccess \cup {Tamper(a) : a \in handedAccess}
                 \cup {Forge(a) : a \in handedAccess} \cup {GarbageToken}

RefreshInputs == handedRefresh \cup {JunkString}

Init ==
    /\ now = 0
    /\ refreshStore = EmptyStore
    /\ blacklistStore = EmptyStore
    /\ nextRand = 1
    /\ req = [s \in Slots |-> Idle]
    /\ handedRefresh = {}
    /\ handedAccess = {}
    /\ loggedOut = {}
    /\ revoked = {}
    /\ users = Directory
    /\ companies = {u.company_id : u \in Directory}
    /\ serial = [users |-> Cardinality(Directory) + 1,
                 companies |-> Cardinality({u.company_id : u \in Directory}) + 1,
                 documents |-> Cardinality(Documents) + 1,
                 history |-> 1]
    /\ documents = Documents
    /\ history = {}

\* ------------------------------------------------------------------ requests arrive
\* draws the requests in flight may still make
Reserved ==
    Cardinality({s \in Slots :
        InFlight(s) /\ req[s].op \in {"Login", "RegisterEmployee",
                                      "CreateCompanyWithAdmin"}})

StartLogin(s, emails) ==
    /\ req[s].op = "idle"
    /\ nextRand + Reserved <= MaxRand
    /\ \E email \in emails, password \in Passwords :
         req' = [req EXCEPT ![s] = [Idle EXCEPT !.op = "Login", !.pc = "lookup",
                                       !.email = email, !.password = password]]
    /\ UNCHANGED <<now, refreshStore, blacklistStore, nextRand, handedRefresh,
                   handedAccess, loggedOut, revoked>>
    /\ UNCHANGED dirVars

StartRefresh(s, refreshInputs) ==
    /\ req[s].op = "idle"
    /\ \E r \in refreshInputs :
         LET others == {x \in Slots \ {s} : InFlight(x) /\ req[x].op = "Refresh"
                                             /\ req[x].refresh = r}
         IN req' = [x \in Slots |->
                      IF x = s
                      THEN [Idle EXCEPT !.op = "Refresh", !.pc = "fetch",
                                        !.refresh = r,
                                        !.overlap = (others # {}),
                                        !.afterLogout = (r \in LoggedOutNow)]
                      ELSE IF x \in others
                           THEN [req[x] EXCEPT !.overlap = TRUE]
                           ELSE req[x]]
    /\ UNCHANGED <<now, refreshStore, blacklistStore, nextRand, handedRefresh,
                   handedAccess, loggedOut, revoked>>
    /\ UNCHANGED dirVars

StartLogout(s, accessInputs, refreshInputs) ==
    /\ req[s].op = "idle"
    /\ \E a \in accessInputs, r \in refreshInputs :
         req' = [req EXCEPT ![s] = [Idle EXCEPT !.op = "Logout", !.pc = "delete",
                                       !.access = a, !.refresh = r,
                                       !.stale = (a.claims.exp <= now)]]
    /\ UNCHANGED <<now, refreshStore, blacklistStore, nextRand, handedRefresh,
                   handedAccess, loggedOut, revoked>>
    /\ UNCHANGED dirVars

StartParseToken(s, accessInputs) ==
    /\ req[s].op = "idle"
    /\ \E a \in accessInputs :
         req' = [req EXCEPT ![s] = [Idle EXCEPT !.op = "ParseToken", !.pc = "check",
                                       !.access = a, !.stale = (a.claims.exp <= now),
                                       !.afterRevoke = (a \in RevokedNow)]]
    /\ UNCHANGED <<now, refreshStore, blacklistStore, nextRand, handedRefresh,
                   handedAccess, loggedOut, revoked>>
    /\ UNCHANGED dirVars

\* ------------------------------------------------------------------ Login
LoginLookupStep(s) ==
    /\ req[s].op = "Login" /\ req[s].pc = "lookup"
    /\ \E dbOk \in BOOLEAN :
         LET r == req[s]
             c == LoginCredentials(users, r.email, r.password, dbOk)
         IN req' = [req EXCEPT ![s] =
                IF c.err # NoError
                THEN Finish([r EXCEPT !.fault = ~dbOk], c.err)
                ELSE [r EXCEPT !.pc = "issue", !.payload = c.payload]]
    /\ UNCHANGED <<now, refreshStore, blacklistStore, nextRand, handedRefresh,
                   handedAccess, loggedOut, revoked>>
    /\ UNCHANGED dirVars

LoginIssueStep(s) ==
    /\ req[s].op = "Login" /\ req[s].pc = "issue"
    /\ \E signOk \in BOOLEAN, randOk \in BOOLEAN, storeOk \in BOOLEAN :
         LET r == req[s]
             i == LoginIssue(r.payload, refreshStore, nextRand, now,
                             signOk, randOk, storeOk)
         IN /\ req' = [req EXCEPT ![s] =
                   Finish([r EXCEPT !.pair = i.pair, !.gen = i.gen, !.at = now,
                                    !.fault = (i.err # NoError),
                                    !.wrote = (i.store # refreshStore)], i.err)]
            /\ refreshStore' = i.store
            /\ nextRand' = i.n
    /\ UNCHANGED <<now, blacklistStore, handedRefresh, handedAccess,
                   loggedOut, revoked>>
    /\ UNCHANGED dirVars

\* ------------------------------------------------------------------ Refresh
\* One step of a Refresh request: the lookup, then the delete, then the
\* reissuance, each at its own store call.
RefreshStep(s) ==
    /\ req[s].op = "Refresh" /\ req[s].pc \in {"fetch", "delete", "issue"}
    /\ req[s].pc = "issue" => nextRand <= MaxRand
    /\ \E signOk \in BOOLEAN, randOk \in BOOLEAN, storeOk \in BOOLEAN :
         LET r == req[s]
             f == RefreshFetch(refreshStore, r.refresh, storeOk)
             d == RefreshDelete(refreshStore, r.refresh, storeOk)
             i == RefreshIssue(r.payload, refreshStore, nextRand, now,
                               signOk, randOk, storeOk)
         IN CASE r.pc = "fetch" ->
                   /\ req' = [req EXCEPT ![s] =
                          LET r1 == [r EXCEPT
                                       !.hit = storeOk /\ RedisExists(refreshStore, r.refresh),
                                       !.fault = ~storeOk]
                          IN IF f.err # NoError
                             THEN Finish(r1, f.err)
                             ELSE [r1 EXCEPT !.pc = "delete", !.payload = f.payload]]
                   /\ UNCHANGED <<refreshStore, nextRand>>
              [] r.pc = "delete" ->
                   /\ req' = [req EXCEPT ![s] =
                          IF d.err # NoError
                          THEN Finish([r EXCEPT !.fault = TRUE], d.err)
                          ELSE [r EXCEPT !.pc = "issue",
                                         !.wrote = (d.store # refreshStore)]]
                   /\ refreshStore' = d.store
                   /\ UNCHANGED nextRand
              [] r.pc = "issue" ->
                   /\ req' = [req EXCEPT ![s] =
                          Finish([r EXCEPT !.pair = i.pair, !.gen = i.gen,
                                           !.at = now,
                                           !.fault = (i.err # NoError),
                                           !.wrote = r.wrote \/ (i.store # refreshStore)],
                                 i.err)]
                   /\ refreshStore' = i.store
                   /\ nextRand' = i.n
    /\ UNCHANGED <<now, blacklistStore, handedRefresh, handedAccess,
                   loggedOut, revoked>>
    /\ UNCHANGED dirVars

\* ------------------------------------------------------------------ Logout
LogoutDeleteStep(s) ==
    /\ req[s].op = "Logout" /\ req[s].pc = "delete"
    /\ \E storeOk \in BOOLEAN :
         LET r == req[s]
             d == LogoutDeleteRefresh(refreshStore, r.refresh, storeOk)
         IN /\ req' = [req EXCEPT ![s] =
                   IF d.err # NoError
                   THEN Finish([r EXCEPT !.fault = ~storeOk], d.err)
                   ELSE [r EXCEPT !.pc = "parse",
                                  !.wrote = (d.store # refreshStore)]]
            /\ refreshStore' = d.store
    /\ UNCHANGED <<now, blacklistStore, nextRand, handedRefresh, handedAccess,
                   loggedOut, revoked>>
    /\ UNCHANGED dirVars

LogoutParseStep(s) ==
    /\ req[s].op = "Logout" /\ req[s].pc = "parse"
    /\ LET r == req[s]
           p == LogoutParse(r.access, now)
       IN req' = [req EXCEPT ![s] =
              IF p.err # NoError
              THEN Finish(r, p.err)
              ELSE [r EXCEPT !.pc = "blacklist", !.expTime = p.expTime]]
    /\ UNCHANGED <<now, refreshStore, blacklistStore, nextRand, handedRefresh,
                   handedAccess, loggedOut, revoked>>
    /\ UNCHANGED dirVars

LogoutBlacklistStep(s) ==
    /\ req[s].op = "Logout" /\ req[s].pc = "blacklist"
    /\ \E storeOk \in BOOLEAN :
         LET r == req[s]
             b == LogoutBlacklist(blacklistStore, r.access, r.expTime, now, storeOk)
         IN /\ req' = [req EXCEPT ![s] =
                   Finish([r EXCEPT !.fault = (b.err # NoError)], b.err)]
            /\ blacklistStore' = b.store
    /\ UNCHANGED <<now, refreshStore, nextRand, handedRefresh, handedAccess,
                   loggedOut, revoked>>
    /\ UNCHANGED dirVars

\* ------------------------------------------------------------------ ParseToken
\* ParseTokenCheckStep that renews the denylist entry of a revoked token
ParseTokenCheckStep_Renew(s) ==
    /\ req[s].op = "ParseToken" /\ req[s].pc = "check"
    /\ \E storeOk \in BOOLEAN :
         LET r == req[s]
             c == ParseTokenCheck(blacklistStore, r.access, storeOk)
         IN /\ req' = [req EXCEPT ![s] =
                   IF c.go
                   THEN [r EXCEPT !.pc = "verify"]
                   ELSE Finish([r EXCEPT !.fault = ~storeOk], c.err)]
            /\ blacklistStore' =
                   IF storeOk /\ ~c.go
                   THEN BlacklistAccessToken(blacklistStore, SHA256Hex(r.access),
                                             AccessTTL, now, TRUE).store
                   ELSE blacklistStore
    /\ UNCHANGED <<now, refreshStore, nextRand, handedRefresh,
                   handedAccess, loggedOut, revoked>>
    /\ UNCHANGED dirVars

ParseTokenCheckStep(s) ==
    /\ req[s].op = "ParseToken" /\ req[s].pc = "check"
    /\ \E storeOk \in BOOLEAN :
         LET r == req[s]
             c == ParseTokenCheck(blacklistStore, r.access, storeOk)
         IN req' = [req EXCEPT ![s] =
                IF c.go
                THEN [r EXCEPT !.pc = "verify"]
                ELSE Finish([r EXCEPT !.fault = ~storeOk], c.err)]
    /\ UNCHANGED <<now, refreshStore, blacklistStore, nextRand, handedRefresh,
                   handedAccess, loggedOut, revoked>>
    /\ UNCHANGED dirVars

\* ParseTokenVerifyStep that looks the token's user up in table users and
\* answers with the row's role and company
ParseTokenVerifyStep_Directory(s) ==
    /\ req[s].op = "ParseToken" /\ req[s].pc = "verify"
    /\ LET r == req[s]
           v == ParseTokenVerify(r.access, now)
           rows == {u \in users : Itoa(u.id) = v.payload.user_id}
       IN req' = [req EXCEPT ![s] =
              IF v.err # NoError THEN Finish(r, v.err)
              ELSE IF rows = {}
                   THEN Finish(r, UnauthorizedError("invalid token"))
                   ELSE Finish([r EXCEPT !.payload =
                                   TokenPayloadOf(CHOOSE u \in rows : TRUE)],
                               NoError)]
    /\ UNCHANGED <<now, refreshStore, blacklistStore, nextRand, handedRefresh,
                   handedAccess, loggedOut, revoked>>
    /\ UNCHANGED dirVars

ParseTokenVerifyStep(s) ==
    /\ req[s].op = "ParseToken" /\ req[s].pc = "verify"
    /\ LET r == req[s]
           v == ParseTokenVerify(r.access, now)
       IN req' = [req EXCEPT ![s] = Finish([r EXCEPT !.payload = v.payload], v.err)]
    /\ UNCHANGED <<now, refreshStore, blacklistStore, nextRand, handedRefresh,
                   handedAccess, loggedOut, revoked>>
    /\ UNCHANGED dirVars

\* ------------------------------------------------------------------ response, clock
\* The HTTP response leaves: the client learns the pair, the slot is free.
Respond(s) ==
    /\ Returned(s) /\ ~Pending(s)
    /\ LET r == req[s]
           gotPair == /\ r.op \in {"Login", "Refresh", "RegisterEmployee",
                                   "CreateCompanyWithAdmin"}
                      /\ r.res = NoError
           loggedOutOk == r.op = "Logout" /\ r.res = NoError
       IN /\ handedRefresh' = IF gotPair THEN handedRefresh \cup {r.pair.refresh}
                                         ELSE handedRefresh
          /\ handedAccess' = IF gotPair THEN handedAccess \cup {r.pair.access}
                                        ELSE handedAccess
          /\ loggedOut' = IF loggedOutOk THEN loggedOut \cup {r.refresh}
                                         ELSE loggedOut
          /\ revoked' = IF loggedOutOk THEN revoked \cup {r.access} ELSE revoked
    /\ req' = [req EXCEPT ![s] = Idle]
    /\ UNCHANGED <<now, refreshStore, blacklistStore, nextRand>>
    /\ UNCHANGED dirVars

\* A second passes; Redis drops the keys whose TTL has run out.
Tick ==
    /\ now < MaxTime
    /\ now' = now + 1
    /\ refreshStore' = RedisExpire(refreshStore, now + 1)
    /\ blacklistStore' = RedisExpire(blacklistStore, now + 1)
    /\ UNCHANGED <<nextRand, req, handedRefresh, handedAccess, loggedOut, revoked>>
    /\ UNCHANGED dirVars

\* one request at a time, any operation, any input
Next ==
    \/ \E s \in SeqSlots : StartLogin(s, Emails)
    \/ \E s \in SeqSlots : StartRefresh(s, RefreshInputs)
    \/ \E s \in SeqSlots : StartLogout(s, AccessInputs, RefreshInputs)
    \/ \E s \in SeqSlots : StartParseToken(s, AccessInputs)
    \/ \E s \in SeqSlots : LoginLookupStep(s)
    \/ \E s \in SeqSlots : LoginIssueStep(s)
    \/ \E s \in SeqSlots : RefreshStep(s)
    \/ \E s \in SeqSlots : LogoutDeleteStep(s)
    \/ \E s \in SeqSlots : LogoutParseStep(s)
    \/ \E s \in SeqSlots : LogoutBlacklistStep(s)
    \/ \E s \in SeqSlots : ParseTokenCheckStep(s)
    \/ \E s \in SeqSlots : ParseTokenVerifyStep(s)
    \/ \E s \in SeqSlots : Respond(s)
    \/ Tick

Spec == Init /\ [][Next]_vars

\* ------------------------------------------------------------------ registration
RegEmails == {"a@x.com", "c@z.com"}

RegCompanies == {1, 9}

StartRegisterEmployee(s) ==
    /\ req[s].op = "idle"
    /\ nextRand + Reserved <= MaxRand
    /\ serial.users <= MaxUserID
    /\ \E email \in RegEmails, companyID \in RegCompanies :
         req' = [req EXCEPT ![s] =
                    [Idle EXCEPT !.op = "RegisterEmployee", !.pc = "company",
                                 !.route = <<"POST", "/api/auth/register">>,
                                 !.email = email, !.password = "pw-a",
                                 !.company = companyID, !.usersBefore = users]]
    /\ UNCHANGED <<now, refreshStore, blacklistStore, nextRand, handedRefresh,
                   handedAccess, loggedOut, revoked>>
    /\ UNCHANGED dirVars

RegisterEmployeeCompanyStep(s) ==
    /\ req[s].op = "RegisterEmployee" /\ req[s].pc = "company"
    /\ \E dbOk \in BOOLEAN :
         LET r == req[s]
             e == RegisterEmployeeCompany(companies, r.company, dbOk)
         IN req' = [req EXCEPT ![s] =
                IF e # NoError THEN Finish([r EXCEPT !.fault = ~dbOk], e)
                ELSE [r EXCEPT !.pc = "create"]]
    /\ UNCHANGED <<now, refreshStore, blacklistStore, nextRand, handedRefresh,
                   handedAccess, loggedOut, revoked>>
    /\ UNCHANGED dirVars

RegisterEmployeeCreateStep(s) ==
    /\ req[s].op = "RegisterEmployee" /\ req[s].pc = "create"
    /\ \E hashOk \in BOOLEAN, dbOk \in BOOLEAN :
         LET r == req[s]
             c == RegisterEmployeeCreate(users, companies, serial.users, r.email,
                                         r.password, r.company, hashOk, dbOk)
         IN /\ req' = [req EXCEPT ![s] =
                   IF c.err # NoError
                   THEN Finish([r EXCEPT !.fault = ~hashOk \/ ~dbOk], c.err)
                   ELSE [r EXCEPT !.pc = "issue", !.payload = c.payload]]
            /\ users' = c.users
            /\ serial' = IF hashOk /\ dbOk
                         THEN [serial EXCEPT !.users = @ + 1] ELSE serial
    /\ UNCHANGED <<now, refreshStore, blacklistStore, nextRand, handedRefresh,
                   handedAccess, loggedOut, revoked, companies,
                   documents, history>>

\* the issuance tail of RegisterEmployee and of CreateCompanyWithAdmin: the
\* same three calls as in Login
RegisterIssueStep(s) ==
    /\ req[s].op \in {"RegisterEmployee", "CreateCompanyWithAdmin"}
    /\ req[s].pc = "issue"
    /\ \E signOk \in BOOLEAN, randOk \in BOOLEAN, storeOk \in BOOLEAN :
         LET r == req[s]
             i == LoginIssue(r.payload, refreshStore, nextRand, now,
                             signOk, randOk, storeOk)
         IN /\ req' = [req EXCEPT ![s] =
                   Finish([r EXCEPT !.pair = i.pair, !.gen = i.gen, !.at = now,
                                    !.fault = (i.err # NoError),
                                    !.wrote = (i.store # refreshStore)], i.err)]
            /\ refreshStore' = i.store
            /\ nextRand' = i.n
    /\ UNCHANGED <<now, blacklistStore, handedRefresh, handedAccess,
                   loggedOut, revoked>>
    /\ UNCHANGED dirVars

StartCreateCompany(s) ==
    /\ req[s].op = "idle"
    /\ nextRand + Reserved <= MaxRand
    /\ serial.users <= MaxUserID
    /\ serial.companies <= MaxCompanyID
    /\ \E email \in RegEmails :
         req' = [req EXCEPT ![s] =
                    [Idle EXCEPT !.op = "CreateCompanyWithAdmin", !.pc = "company",
                                 !.route = <<"POST", "/api/user/company">>,
                                 !.email = email, !.password = "pw-a",
                                 !.usersBefore = users]]
    /\ UNCHANGED <<now, refreshStore, blacklistStore, nextRand, handedRefresh,
                   handedAccess, loggedOut, revoked>>
    /\ UNCHANGED dirVars

CompanyCreateStep(s) ==
    /\ req[s].op = "CreateCompanyWithAdmin" /\ req[s].pc = "company"
    /\ \E dbOk \in BOOLEAN :
         LET r == req[s]
             c == CompanyCreate(companies, serial.companies, dbOk)
         IN /\ req' = [req EXCEPT ![s] =
                   IF c.err # NoError THEN Finish([r EXCEPT !.fault = TRUE], c.err)
                   ELSE [r EXCEPT !.pc = "create", !.company = c.id]]
            /\ companies' = c.companies
            /\ serial' = IF dbOk THEN [serial EXCEPT !.companies = @ + 1]
                         ELSE serial
    /\ UNCHANGED <<now, refreshStore, blacklistStore, nextRand, handedRefresh,
                   handedAccess, loggedOut, revoked, users,
                   documents, history>>

AdminCreateStep(s) ==
    /\ req[s].op = "CreateCompanyWithAdmin" /\ req[s].pc = "create"
    /\ \E hashOk \in BOOLEAN, dbOk \in BOOLEAN :
         LET r == req[s]
             c == AdminCreate(users, companies, serial.users, r.email,
                              r.password, r.company, hashOk, dbOk)
         IN /\ req' = [req EXCEPT ![s] =
                   IF c.err # NoError
                   THEN [r EXCEPT !.pc = "cleanup", !.res = c.err,
                                  !.fault = ~hashOk \/ ~dbOk]
                   ELSE [r EXCEPT !.pc = "issue", !.payload = c.payload]]
            /\ users' = c.users
            /\ serial' = IF hashOk /\ dbOk
                         THEN [serial EXCEPT !.users = @ + 1] ELSE serial
    /\ UNCHANGED <<now, refreshStore, blacklistStore, nextRand, handedRefresh,
                   handedAccess, loggedOut, revoked, companies,
                   documents, history>>

\* the company is deleted again; the outcome of the DELETE is ignored
CompanyCleanupStep(s) ==
    /\ req[s].op = "CreateCompanyWithAdmin" /\ req[s].pc = "cleanup"
    /\ \E dbOk \in BOOLEAN :
         LET r == req[s]
             d == DeleteCompany(companies, users, r.company, dbOk)
         IN /\ req' = [req EXCEPT ![s] =
                   Finish([r EXCEPT !.fault = r.fault \/ ~dbOk], r.res)]
            /\ companies' = d.companies
            /\ users' = d.users
    /\ UNCHANGED <<now, refreshStore, blacklistStore, nextRand, handedRefresh,
                   handedAccess, loggedOut, revoked, serial,
                   documents, history>>

\* ------------------------------------------------------------------ protected routes
UserIDs == 1 .. MaxUserID

Updates ==
    { [first_name |-> "Zed", email |-> ""], [first_name |-> "", email |-> "b@y.com"] }

NoUpdate == [first_name |-> "", email |-> ""]

TargetsOf(route) ==
    IF route \in {<<"PUT", "/api/user/:id">>, <<"DELETE", "/api/user/:id">>}
    THEN UserIDs ELSE {0}

UpdatesOf(route) ==
    IF route \in {<<"PUT", "/api/user/:id">>, <<"PUT", "/api/user/me">>}
    THEN Updates ELSE {NoUpdate}

\* the Authorization headers a client can send with the tokens it holds
HeaderInputs(tokens) ==
    {NoHeader, [scheme |-> "Bearer", token |-> NoToken]}
        \cup [scheme : {"Bearer", "Basic"}, token : tokens \cup {GarbageToken}]

StartProtected(s, tokens) ==
    /\ req[s].op = "idle"
    /\ \E route \in ProtectedRoutes, header \in HeaderInputs(tokens) :
       \E target \in TargetsOf(route), upd \in UpdatesOf(route) :
         req' = [req EXCEPT ![s] =
                    [Idle EXCEPT !.op = HandlersChain(route)[1], !.pc = "header",
                                 !.route = route, !.header = header,
                                 !.target = target, !.upd = upd,
                                 !.usersBefore = users]]
    /\ UNCHANGED <<now, refreshStore, blacklistStore, nextRand, handedRefresh,
                   handedAccess, loggedOut, revoked>>
    /\ UNCHANGED dirVars

\* AuthMiddleware reads the header: it aborts, or calls ParseToken
AuthMiddlewareHeaderStep(s) ==
    /\ req[s].op = "AuthMiddleware" /\ req[s].pc = "header"
    /\ LET r == req[s]
           h == AuthMiddlewareHeader(r.header)
       IN req' = [req EXCEPT ![s] =
              IF h.go
              THEN [r EXCEPT !.op = "ParseToken", !.pc = "check",
                             !.access = h.token,
                             !.stale = (h.token.claims.exp <= now),
                             !.afterRevoke = (h.token \in RevokedNow)]
              ELSE Finish(r, h.err)]
    /\ UNCHANGED <<now, refreshStore, blacklistStore, nextRand, handedRefresh,
                   handedAccess, loggedOut, revoked>>
    /\ UNCHANGED dirVars

\* ParseToken has returned: AuthMiddleware aborts with its error, or fills
\* the context and calls the next handler of the chain, which reads the
\* context
AuthMiddlewareNextStep(s) ==
    /\ Pending(s)
    /\ LET r == req[s]
           handler == HandlersChain(r.route)[2]
           c == ContextOf(r.payload)
           h == [r EXCEPT !.op = handler, !.ctx = c, !.invoked = TRUE]
       IN req' = [req EXCEPT ![s] =
              IF r.res # NoError
              THEN [r EXCEPT !.op = "AuthMiddleware"]
              ELSE IF handler \in {"UpdateUser", "UpdateMe", "DeleteUser"}
                   THEN IF ~Atoi(c.company_id).ok
                        THEN Finish(h, InternalError("invalid company ID in token"))
                        ELSE [h EXCEPT !.pc = "target",
                                       !.target = IF handler = "UpdateMe"
                                                  THEN c.user_id ELSE @]
                   ELSE [h EXCEPT !.pc = "handler"]]
    /\ UNCHANGED <<now, refreshStore, blacklistStore, nextRand, handedRefresh,
                   handedAccess, loggedOut, revoked>>
    /\ UNCHANGED dirVars

UpdateUserTargetStep(s) ==
    /\ req[s].op \in {"UpdateUser", "UpdateMe"} /\ req[s].pc = "target"
    /\ \E dbOk \in BOOLEAN :
         LET r == req[s]
             e == UpdateUserTarget(users, r.target, r.ctx.user_role,
                                   Atoi(r.ctx.company_id).n, r.ctx.user_id, dbOk)
         IN req' = [req EXCEPT ![s] =
                IF e # NoError THEN Finish([r EXCEPT !.fault = ~dbOk], e)
                ELSE [r EXCEPT !.pc = IF r.upd.email # "" THEN "email"
                                      ELSE "update"]]
    /\ UNCHANGED <<now, refreshStore, blacklistStore, nextRand, handedRefresh,
                   handedAccess, loggedOut, revoked>>
    /\ UNCHANGED dirVars

UpdateUserEmailStep(s) ==
    /\ req[s].op \in {"UpdateUser", "UpdateMe"} /\ req[s].pc = "email"
    /\ \E dbOk \in BOOLEAN :
         LET r == req[s]
             e == UpdateUserEmail(users, r.target, r.upd.email, dbOk)
         IN req' = [req EXCEPT ![s] =
                IF e # NoError THEN Finish([r EXCEPT !.fault = ~dbOk], e)
                ELSE [r EXCEPT !.pc = "update"]]
    /\ UNCHANGED <<now, refreshStore, blacklistStore, nextRand, handedRefresh,
                   handedAccess, loggedOut, revoked>>
    /\ UNCHANGED dirVars

UpdateUserWriteStep(s) ==
    /\ req[s].op \in {"UpdateUser", "UpdateMe"} /\ req[s].pc = "update"
    /\ \E dbOk \in BOOLEAN :
         LET r == req[s]
             w == UpdateUserWrite(users, r.target, r.upd, dbOk)
         IN /\ req' = [req EXCEPT ![s] = Finish([r EXCEPT !.fault = ~dbOk], w.err)]
            /\ users' = w.users
    /\ UNCHANGED <<now, refreshStore, blacklistStore, nextRand, handedRefresh,
                   handedAccess, loggedOut, revoked, companies, serial,
                   documents, history>>

DeleteUserTargetStep(s) ==
    /\ req[s].op = "DeleteUser" /\ req[s].pc = "target"
    /\ \E dbOk \in BOOLEAN :
         LET r == req[s]
             e == DeleteUserTarget(users, r.target, r.ctx.user_role,
                                   Atoi(r.ctx.company_id).n, dbOk)
         IN req' = [req EXCEPT ![s] =
                IF e # NoError
                THEN Finish([r EXCEPT !.fault = (e.type = ErrorTypeInternal)], e)
                ELSE [r EXCEPT !.pc = "delete"]]
    /\ UNCHANGED <<now, refreshStore, blacklistStore, nextRand, handedRefresh,
                   handedAccess, loggedOut, revoked>>
    /\ UNCHANGED dirVars

DeleteUserWriteStep(s) ==
    /\ req[s].op = "DeleteUser" /\ req[s].pc = "delete"
    /\ \E dbOk \in BOOLEAN :
         LET r == req[s]
             w == DeleteUserWrite(users, r.target, dbOk)
         IN /\ req' = [req EXCEPT ![s] = Finish([r EXCEPT !.fault = ~dbOk], w.err)]
            /\ users' = w.users
    /\ UNCHANGED <<now, refreshStore, blacklistStore, nextRand, handedRefresh,
                   handedAccess, loggedOut, revoked, companies, serial,
                   documents, history>>

\* the handlers that write no row of users or companies and no store key
OtherHandlerStep(s) ==
    /\ req[s].invoked /\ req[s].pc = "handler"
    /\ req[s].op \notin {"CreateDocument", "VerifyDocument"}
    /\ req' = [req EXCEPT ![s] = Finish(req[s], NoError)]
    /\ UNCHANGED <<now, refreshStore, blacklistStore, nextRand, handedRefresh,
                   handedAccess, loggedOut, revoked>>
    /\ UNCHANGED dirVars

\* ------------------------------------------------------------------ document routes
\* DocumentHandler.CreateDocument: the company of the context, the form,
\* then documentService.CreateDocument
CreateDocumentStep(s) ==
    /\ req[s].op = "CreateDocument" /\ req[s].invoked /\ req[s].pc = "handler"
    /\ \E dbOk \in BOOLEAN :
         LET r == [req[s] EXCEPT !.docsBefore = documents]
             company == Atoi(r.ctx.company_id)
             f == r.form
             t == TimeParse(f.expiration_date)
             c == CreateDocument(documents, serial.documents,
                                 [type |-> f.type, name |-> f.name,
                                  summary |-> f.summary, expiration_date |-> t.t],
                                 company.n, dbOk)
             early ==
                 IF ~company.ok THEN InternalError("invalid company ID in token")
                 ELSE IF f.type = "" \/ f.name = "" \/ f.summary = ""
                         \/ f.expiration_date = EmptyString
                 THEN New(ErrorTypeBadRequest,
                          "type, name, summary and expiration_date are required")
                 ELSE IF ~t.ok
                 THEN New(ErrorTypeBadRequest,
                          "invalid expiration_date format, use RFC3339")
                 ELSE IF ~f.file
                 THEN New(ErrorTypeBadRequest, "file is required")
                 ELSE NoError
         IN IF early # NoError
            THEN /\ req' = [req EXCEPT ![s] = Finish(r, early)]
                 /\ UNCHANGED <<documents, serial>>
            ELSE /\ req' = [req EXCEPT ![s] =
                        Finish([r EXCEPT !.hash = c.hash, !.fault = ~dbOk], c.err)]
                 /\ documents' = c.docs
                 /\ serial' = IF dbOk THEN [serial EXCEPT !.documents = @ + 1]
                              ELSE serial
    /\ UNCHANGED <<now, refreshStore, blacklistStore, nextRand, handedRefresh,
                   handedAccess, loggedOut, revoked, users, companies, history>>

\* DocumentHandler.VerifyDocument: the company and the user of the context,
\* the hash of the query, then documentService.VerifyDocument
VerifyDocumentStep(s) ==
    /\ req[s].op = "VerifyDocument" /\ req[s].invoked /\ req[s].pc = "handler"
    /\ \E getOk \in BOOLEAN, incOk \in BOOLEAN, histOk \in BOOLEAN :
         LET r == [req[s] EXCEPT !.docsBefore = documents]
             company == Atoi(r.ctx.company_id)
             v == VerifyDocument(documents, history, serial.history, r.hash,
                                 company.n, r.ctx.user_id, now,
                                 [get |-> getOk, inc |-> incOk, hist |-> histOk])
             early ==
                 IF ~company.ok THEN InternalError("invalid company ID in token")
                 ELSE IF r.hash = EmptyString
                 THEN New(ErrorTypeBadRequest, "hash query parameter is required")
                 ELSE NoError
         IN IF early # NoError
            THEN /\ req' = [req EXCEPT ![s] = Finish(r, early)]
                 /\ UNCHANGED <<documents, history, serial>>
            ELSE /\ req' = [req EXCEPT ![s] =
                        Finish([r EXCEPT !.doc = v.doc, !.status = v.status,
                                         !.fault = ~getOk \/ ~incOk \/ ~histOk],
                               v.err)]
                 /\ documents' = v.docs
                 /\ history' = v.hist
                 /\ serial' = IF v.hist # history
                              THEN [serial EXCEPT !.history = @ + 1] ELSE serial
    /\ UNCHANGED <<now, refreshStore, blacklistStore, nextRand, handedRefresh,
                   handedAccess, loggedOut, revoked, users, companies>>

\* a request to one of the two document routes arrives. The hash of the
\* query is none, a text that is not base64, base64 of a text that is not
\* JSON, or the hash of any document id under any company id; the form is
\* empty or has its fields filled in, well or badly
StartDocument(s, tokens) ==
    /\ req[s].op = "idle"
    /\ \E route \in {<<"POST", "/api/documents">>, <<"GET", "/api/documents/verify">>},
          header \in [scheme : {"Bearer"}, token : tokens] :
       \E hash \in {EmptyString, JunkString, Base64Encode(JunkString)}
                    \cup {Base64Encode(JsonMarshal(
                              [id |-> d, company_id |-> c, type |-> "license",
                               name |-> "L"])) : d \in 1 .. MaxDocID, c \in {1, 2}},
          form \in {NoForm}
                    \cup [type : {"license"}, name : {"", "L"}, summary : {"S"},
                          expiration_date : {JunkString, FormatRFC3339(0 - Day)},
                          file : BOOLEAN] :
         /\ HandlerOf(route) = "CreateDocument"
               => hash = EmptyString /\ serial.documents <= MaxDocID
         /\ HandlerOf(route) = "VerifyDocument"
               => /\ form = NoForm /\ serial.history <= MaxScans
                  /\ \A d \in documents : d.scan_count < MaxScans
                  /\ Cardinality({d \in documents : d.scan_count > 0}) < MaxScans
         /\ req' = [req EXCEPT ![s] =
                    [Idle EXCEPT !.op = HandlersChain(route)[1], !.pc = "header",
                                 !.route = route, !.header = header,
                                 !.hash = hash, !.form = form,
                                 !.usersBefore = users]]
    /\ UNCHANGED <<now, refreshStore, blacklistStore, nextRand, handedRefresh,
                   handedAccess, loggedOut, revoked>>
    /\ UNCHANGED dirVars

\* a Login of a client that holds no access token yet
StartSession(s) ==
    /\ handedAccess = {}
    /\ StartLogin(s, Emails)

\* the document routes behind AuthMiddleware: the requests of one session,
\* one at a time, within one reading of the clock
NextDoc ==
    \/ \E s \in SeqSlots : StartSession(s)
    \/ \E s \in SeqSlots : LoginLookupStep(s)
    \/ \E s \in SeqSlots : LoginIssueStep(s)
    \/ \E s \in SeqSlots : StartDocument(s, handedAccess)
    \/ \E s \in SeqSlots : AuthMiddlewareHeaderStep(s)
    \/ \E s \in SeqSlots : ParseTokenCheckStep(s)
    \/ \E s \in SeqSlots : ParseTokenVerifyStep(s)
    \/ \E s \in SeqSlots : AuthMiddlewareNextStep(s)
    \/ \E s \in SeqSlots : CreateDocumentStep(s)
    \/ \E s \in SeqSlots : VerifyDocumentStep(s)
    \/ \E s \in SeqSlots : Respond(s)

SpecDoc == Init /\ [][NextDoc]_vars

\* the two registrations and Login, one request at a time
NextReg ==
    \/ \E s \in SeqSlots : StartLogin(s, Emails)
    \/ \E s \in SeqSlots : LoginLookupStep(s)
    \/ \E s \in SeqSlots : LoginIssueStep(s)
    \/ \E s \in SeqSlots : StartRegisterEmployee(s)
    \/ \E s \in SeqSlots : RegisterEmployeeCompanyStep(s)
    \/ \E s \in SeqSlots : RegisterEmployeeCreateStep(s)
    \/ \E s \in SeqSlots : StartCreateCompany(s)
    \/ \E s \in SeqSlots : CompanyCreateStep(s)
    \/ \E s \in SeqSlots : AdminCreateStep(s)
    \/ \E s \in SeqSlots : CompanyCleanupStep(s)
    \/ \E s \in SeqSlots : RegisterIssueStep(s)
    \/ \E s \in SeqSlots : Respond(s)

SpecReg == Init /\ [][NextReg]_vars

\* the HTTP API of the user directory, one request at a time: Login, the
\* registration of employees, and the protected routes behind AuthMiddleware
NextApi ==
    \/ \E s \in SeqSlots : StartLogin(s, Emails)
    \/ \E s \in SeqSlots : LoginLookupStep(s)
    \/ \E s \in SeqSlots : LoginIssueStep(s)
    \/ \E s \in SeqSlots : StartRegisterEmployee(s)
    \/ \E s \in SeqSlots : RegisterEmployeeCompanyStep(s)
    \/ \E s \in SeqSlots : RegisterEmployeeCreateStep(s)
    \/ \E s \in SeqSlots : RegisterIssueStep(s)
    \/ \E s \in SeqSlots : StartProtected(s, handedAccess)
    \/ \E s \in SeqSlots : AuthMiddlewareHeaderStep(s)
    \/ \E s \in SeqSlots : ParseTokenCheckStep(s)
    \/ \E s \in SeqSlots : ParseTokenVerifyStep(s)
    \/ \E s \in SeqSlots : AuthMiddlewareNextStep(s)
    \/ \E s \in SeqSlots : UpdateUserTargetStep(s)
    \/ \E s \in SeqSlots : UpdateUserEmailStep(s)
    \/ \E s \in SeqSlots : UpdateUserWriteStep(s)
    \/ \E s \in SeqSlots : DeleteUserTargetStep(s)
    \/ \E s \in SeqSlots : DeleteUserWriteStep(s)
    \/ \E s \in SeqSlots : OtherHandlerStep(s)
    \/ \E s \in SeqSlots : CreateDocumentStep(s)
    \/ \E s \in SeqSlots : VerifyDocumentStep(s)
    \/ \E s \in SeqSlots : Respond(s)

SpecApi == Init /\ [][NextApi]_vars

\* ------------------------------------------------------------------ jwtService alone
\* the payloads a caller may hand to GenerateAccessToken
Payloads ==
    [user_id : {EmptyString, Itoa(1), Itoa(2)},
     role : {"", "admin", "employee"},
     company_id : {EmptyString, Itoa(1)}]

\* GenerateAccessToken of a payload at the current clock reading
JwtIssue(s) ==
    /\ req[s].op = "idle"
    /\ \E P \in Payloads, signOk \in BOOLEAN :
         LET g == GenerateAccessToken(P, now, signOk)
             r == [Idle EXCEPT !.op = "RoundTrip", !.pc = "issued", !.input = P,
                               !.access = g.token, !.at = now]
         IN req' = [req EXCEPT ![s] =
                IF g.ok THEN r
                ELSE Finish([r EXCEPT !.fault = TRUE],
                            InternalError("error generating access token"))]
    /\ UNCHANGED <<now, refreshStore, blacklistStore, nextRand, handedRefresh,
                   handedAccess, loggedOut, revoked>>
    /\ UNCHANGED dirVars

\* ParseAccessToken of the generated token at the current clock reading
JwtVerify(s) ==
    /\ req[s].op = "RoundTrip" /\ req[s].pc = "issued"
    /\ LET r == req[s]
           p == ParseAccessToken(r.access, now)
       IN req' = [req EXCEPT ![s] =
              Finish([r EXCEPT !.payload = p.payload, !.expTime = p.expTime], p.err)]
    /\ UNCHANGED <<now, refreshStore, blacklistStore, nextRand, handedRefresh,
                   handedAccess, loggedOut, revoked>>
    /\ UNCHANGED dirVars

NextJwt ==
    \/ \E s \in SeqSlots : JwtIssue(s)
    \/ \E s \in SeqSlots : JwtVerify(s)
    \/ \E s \in SeqSlots : Respond(s)
    \/ Tick

SpecJwt == Init /\ [][NextJwt]_vars

\* two requests at a time: Login, Refresh and Logout with the tokens the
\* clients hold
ConcEmails == {"a@x.com", "nobody@x.com"}

NextConc ==
    \/ \E s \in Slots : StartLogin(s, ConcEmails)
    \/ \E s \in Slots : StartRefresh(s, handedRefresh)
    \/ \E s \in Slots : StartLogout(s, handedAccess, handedRefresh)
    \/ \E s \in Slots : LoginLookupStep(s)
    \/ \E s \in Slots : LoginIssueStep(s)
    \/ \E s \in Slots : RefreshStep(s)
    \/ \E s \in Slots : LogoutDeleteStep(s)
    \/ \E s \in Slots : LogoutParseStep(s)
    \/ \E s \in Slots : LogoutBlacklistStep(s)
    \/ \E s \in Slots : Respond(s)
    \/ Tick

SpecConc == Init /\ [][NextConc]_vars

\* the five operations of AuthService, one request at a time, and the clock
NextAuth ==
    \/ \E s \in SeqSlots : StartLogin(s, ConcEmails)
    \/ \E s \in SeqSlots : StartRegisterEmployee(s)
    \/ \E s \in SeqSlots : StartRefresh(s, RefreshInputs)
    \/ \E s \in SeqSlots : StartLogout(s, handedAccess \cup {GarbageToken},
                                       RefreshInputs)
    \/ \E s \in SeqSlots : StartParseToken(s, handedAccess \cup {GarbageToken})
    \/ \E s \in SeqSlots : LoginLookupStep(s)
    \/ \E s \in SeqSlots : LoginIssueStep(s)
    \/ \E s \in SeqSlots : RegisterEmployeeCompanyStep(s)
    \/ \E s \in SeqSlots : RegisterEmployeeCreateStep(s)
    \/ \E s \in SeqSlots : RegisterIssueStep(s)
    \/ \E s \in SeqSlots : RefreshStep(s)
    \/ \E s \in SeqSlots : LogoutDeleteStep(s)
    \/ \E s \in SeqSlots : LogoutParseStep(s)
    \/ \E s \in SeqSlots : LogoutBlacklistStep(s)
    \/ \E s \in SeqSlots : ParseTokenCheckStep(s)
    \/ \E s \in SeqSlots : ParseTokenVerifyStep(s)
    \/ \E s \in SeqSlots : Respond(s)
    \/ Tick

SpecAuth == Init /\ [][NextAuth]_vars

\* ------------------------------------------------------------------ properties
SigValid(a) == a.form = "jwt" /\ a.sig = HS256(AccessTokenSecret, a.claims)

UnknownEmail(email) == ~(\E u \in users : u.email = email)

WrongPassword(email, password) ==
    \E u \in users :
        u.email = email /\ ~CompareHashAndPassword(u.password, password)

\* C1: a Refresh that presents a refresh token handed to a client, and whose
\* lookup finds the token's entry still in the store (not consumed, not
\* removed, not expired), succeeds and returns a new access+refresh pair.
C1_LiveRefreshSucceeds ==
    \A s \in Slots :
        (/\ req[s].op = "Refresh" /\ Returned(s)
         /\ req[s].refresh \in handedRefresh
         /\ req[s].hit /\ ~req[s].fault)
        => (req[s].res = NoError /\ req[s].pair # NoPair)

\* C4: once Logout(a, r) has returned success, every ParseToken(a) that
\* arrives later fails with Unauthorized and yields no payload; and as long
\* as a is not past its own expiry the digest of a stays in the denylist.
C4_RevokedStaysRejected ==
    /\ \A s \in Slots :
          (req[s].op = "ParseToken" /\ Returned(s) /\ req[s].afterRevoke)
          => (/\ req[s].res.type = ErrorTypeUnauthorized
              /\ req[s].payload = NoPayload)
    /\ \A a \in RevokedNow :
          now < a.claims.exp => RedisExists(blacklistStore, SHA256Hex(a))

C4_Witness ==
    \E s \in Slots :
        /\ req[s].op = "ParseToken" /\ Returned(s) /\ req[s].afterRevoke
        /\ now < req[s].access.claims.exp
        /\ req[s].res = UnauthorizedError("token has been revoked")

\* C5: once Logout(a, r) has returned success the refresh entry of r is not
\* in the store, and every Refresh(r) that arrives later fails and returns
\* no pair: with NotFound whenever the store answers the lookup.
C5_LoggedOutRefreshFails ==
    /\ \A r \in LoggedOutNow : ~RedisExists(refreshStore, r)
    /\ \A s \in Slots :
          (req[s].op = "Refresh" /\ Returned(s) /\ req[s].afterLogout)
          => (/\ req[s].res # NoError
              /\ req[s].pair = NoPair
              /\ (req[s].fault \/ req[s].res.type = ErrorTypeNotFound))

C5_Witness ==
    \E s \in Slots :
        /\ req[s].op = "Refresh" /\ Returned(s) /\ req[s].afterLogout
        /\ req[s].refresh \in handedRefresh
        /\ req[s].res.type = ErrorTypeNotFound

\* C6: a Logout whose access token is malformed or already expired, and
\* whose store calls all work, returns success, leaves no refresh entry for
\* r and adds nothing to the denylist.
C6_LogoutWithDeadTokenSucceeds ==
    \A s \in Slots :
        (/\ req[s].op = "Logout" /\ Returned(s) /\ ~req[s].fault
         /\ (req[s].access.form # "jwt" \/ (SigValid(req[s].access) /\ req[s].stale)))
        => (/\ req[s].res = NoError
            /\ ~RedisExists(refreshStore, req[s].refresh)
            /\ ~RedisExists(blacklistStore, SHA256Hex(req[s].access)))

\* C7: no key of the refresh namespace is a refresh-token string that was
\* handed to a client.
C7_StoreHoldsNoClientString ==
    \A r \in handedRefresh : ~RedisExists(refreshStore, r)

\* C8: ParseToken of a token that is malformed, carries a signature that is
\* not the server's over its claims, or was past its exp on arrival, fails
\* with an Unauthorized error (status 401) and no payload; a revoked token
\* is answered with status 401 too.
C8_BadTokenUnauthorized ==
    \A s \in Slots :
        (req[s].op = "ParseToken" /\ Returned(s))
        => /\ (~SigValid(req[s].access) \/ req[s].stale)
                => (/\ req[s].res.type = ErrorTypeUnauthorized
                    /\ req[s].payload = NoPayload
                    /\ StatusCode(req[s].res) = 401)
           /\ req[s].afterRevoke => StatusCode(req[s].res) = 401

C8_Witness ==
    \E s \in Slots :
        /\ req[s].op = "ParseToken" /\ Returned(s)
        /\ SigValid(req[s].access) /\ req[s].stale /\ ~req[s].afterRevoke
        /\ ~req[s].fault
        /\ StatusCode(req[s].res) = 401

\* C10: a Login that returns an error returns no pair and leaves no refresh
\* entry for the token it generated; a Login that returns a pair has written
\* the entry of the returned refresh string as its last step.
C10_LoginNoPartialSuccess ==
    \A s \in Slots :
        (req[s].op = "Login" /\ Returned(s))
        => /\ req[s].res # NoError
                => (/\ req[s].pair = NoPair
                    /\ (req[s].gen = EmptyString
                        \/ ~RedisExists(refreshStore, req[s].gen)))
           /\ req[s].res = NoError
                => (/\ req[s].pair.refresh = req[s].gen
                    /\ req[s].pair.access # NoToken
                    /\ req[s].wrote)

C10_Witness ==
    \E s \in Slots :
        /\ req[s].op = "Login" /\ Returned(s)
        /\ req[s].res = InternalError("error setting refresh token")
        /\ req[s].gen # EmptyString
        /\ req[s].pair = NoPair

\* C3: of two Refresh requests that present the same refresh token and are
\* in flight together, whose store calls all work, at most one returns a
\* pair and the other gets NotFound.
C3_ConcurrentRefreshOneWins ==
    \A s \in Slots, t \in Slots :
        (/\ s # t
         /\ req[s].op = "Refresh" /\ Returned(s) /\ req[s].overlap
         /\ req[t].op = "Refresh" /\ Returned(t) /\ req[t].overlap
         /\ req[s].refresh = req[t].refresh
         /\ ~req[s].fault /\ ~req[t].fault)
        => (/\ ~(req[s].res = NoError /\ req[t].res = NoError)
            /\ (req[s].res.type = ErrorTypeNotFound
                \/ req[t].res.type = ErrorTypeNotFound))

\* C9: a Login with an email no user has and a Login with a user's email and
\* a wrong password get an Unauthorized error with one and the same message,
\* so their errors are equal; neither returns a pair nor writes to the store.
C9_LoginFailuresIndistinguishable ==
    /\ \A s \in Slots :
          (/\ req[s].op = "Login" /\ Returned(s) /\ ~req[s].fault
           /\ (UnknownEmail(req[s].email)
               \/ WrongPassword(req[s].email, req[s].password)))
          => (/\ req[s].res.type = ErrorTypeUnauthorized
              /\ req[s].pair = NoPair
              /\ ~req[s].wrote
              /\ req[s].gen = EmptyString)
    /\ \A s \in Slots, t \in Slots :
          (/\ req[s].op = "Login" /\ Returned(s) /\ ~req[s].fault
           /\ req[t].op = "Login" /\ Returned(t) /\ ~req[t].fault
           /\ UnknownEmail(req[s].email)
           /\ WrongPassword(req[t].email, req[t].password))
          => req[s].res = req[t].res

C9_Witness ==
    \E s \in Slots, t \in Slots :
        /\ req[s].op = "Login" /\ Returned(s) /\ ~req[s].fault
        /\ req[t].op = "Login" /\ Returned(t) /\ ~req[t].fault
        /\ UnknownEmail(req[s].email)
        /\ WrongPassword(req[t].email, req[t].password)
        /\ req[s].res = req[t].res
        /\ req[s].res.type = ErrorTypeUnauthorized

\* C11: a Login that returned a pair for the stored user u has left, for as
\* long as the refresh lifetime has not run out since the Login, an
\* entry of the returned refresh string that expires exactly one refresh
\* lifetime after the Login, and its access token carries u's id, role and
\* company; a ParseToken of a token handed to a client, not revoked and not
\* yet expired, with the store answering, succeeds and returns exactly the
\* identity the token carries.
C11_LoginEstablishesSession ==
    /\ \A s \in Slots :
          (req[s].op = "Login" /\ Returned(s) /\ req[s].res = NoError)
          => \E u \in Directory :
                /\ u.email = req[s].email
                /\ req[s].pair.access.claims.user_id = Itoa(u.id)
                /\ req[s].pair.access.claims.role = u.role
                /\ req[s].pair.access.claims.company_id = Itoa(u.company_id)
                /\ now < req[s].at + RefreshTTL
                      => /\ RedisExists(refreshStore, req[s].pair.refresh)
                         /\ refreshStore[req[s].pair.refresh].exp
                               = req[s].at + RefreshTTL
    /\ \A s \in Slots :
          (/\ req[s].op = "ParseToken" /\ Returned(s)
           /\ req[s].access \in handedAccess
           /\ ~req[s].afterRevoke /\ ~req[s].fault
           /\ now < req[s].access.claims.exp)
          => /\ req[s].res = NoError
             /\ req[s].payload = [user_id |-> req[s].access.claims.user_id,
                                  role |-> req[s].access.claims.role,
                                  company_id |-> req[s].access.claims.company_id]

C11_Witness ==
    \E s \in Slots :
        /\ req[s].op = "ParseToken" /\ Returned(s)
        /\ req[s].access \in handedAccess
        /\ req[s].res = NoError
        /\ req[s].payload = [user_id |-> Itoa(2), role |-> "employee",
                             company_id |-> Itoa(2)]
        /\ \E r \in handedRefresh :
              /\ RedisExists(refreshStore, r)
              /\ refreshStore[r].exp >= RefreshTTL

\* C12: every denylist entry blocks a token whose expiry instant is still
\* ahead and expires exactly at that instant; and whenever an entry is
\* created its TTL is positive, is the token's remaining lifetime at that
\* moment, and is at most the configured access-token lifetime.
C12_DenylistEntryLifetime ==
    /\ [](\A k \in DOMAIN blacklistStore :
             /\ now < k[2].claims.exp
             /\ blacklistStore[k].exp = k[2].claims.exp)
    /\ [][\A k \in DOMAIN blacklistStore' :
             (k \notin DOMAIN blacklistStore \/ blacklistStore'[k] # blacklistStore[k])
             => LET ttl == blacklistStore'[k].exp - now
                IN /\ ttl > 0
                   /\ ttl = k[2].claims.exp - now
                   /\ ttl <= AccessTTL]_vars

C12_Witness ==
    \E s \in Slots :
        /\ req[s].op = "Logout" /\ Returned(s) /\ req[s].res = NoError
        /\ RedisExists(blacklistStore, SHA256Hex(req[s].access))
        /\ blacklistStore[SHA256Hex(req[s].access)].exp - now = 1
        /\ req[s].access.claims.iat < now

\* C13: a Logout(a, r) that comes after a successful Logout of a and of r
\* has been answered, with a still unexpired and the store answering,
\* returns success again, and leaves r without a refresh entry and the
\* digest of a in the denylist.
C13_LogoutIdempotent ==
    \A s \in Slots :
        (/\ req[s].op = "Logout" /\ Returned(s) /\ ~req[s].fault
         /\ req[s].access \in revoked /\ req[s].refresh \in loggedOut
         /\ now < req[s].access.claims.exp)
        => (/\ req[s].res = NoError
            /\ ~RedisExists(refreshStore, req[s].refresh)
            /\ RedisExists(blacklistStore, SHA256Hex(req[s].access)))

C13_Witness ==
    \E s \in Slots :
        /\ req[s].op = "Logout" /\ Returned(s) /\ ~req[s].fault
        /\ req[s].access \in revoked /\ req[s].refresh \in loggedOut
        /\ req[s].refresh \in handedRefresh
        /\ now < req[s].access.claims.exp
        /\ req[s].res = NoError

\* C15: a Refresh of a string that has no entry in the refresh namespace,
\* with the store answering, fails with NotFound (status 404, not 500) and
\* returns no pair; and the step that answers it changes neither namespace.
C15_UnknownRefreshNotFound ==
    /\ [](\A s \in Slots :
             (/\ req[s].op = "Refresh" /\ Returned(s)
              /\ ~req[s].hit /\ ~req[s].fault)
             => (/\ req[s].res.type = ErrorTypeNotFound
                 /\ StatusCode(req[s].res) = 404
                 /\ req[s].pair = NoPair
                 /\ ~req[s].wrote))
    /\ [][\A s \in Slots :
             (/\ req[s].op = "Refresh" /\ req[s].pc = "fetch"
              /\ ~RedisExists(refreshStore, req[s].refresh)
              /\ req'[s] # req[s])
             => (/\ req'[s].pc = "done"
                 /\ refreshStore' = refreshStore
                 /\ blacklistStore' = blacklistStore)]_vars

C15_Witness ==
    \E s \in Slots :
        /\ req[s].op = "Refresh" /\ Returned(s)
        /\ req[s].refresh = JunkString
        /\ ~req[s].hit /\ ~req[s].fault
        /\ req[s].res = NotFoundError("refresh token")

\* C16: whenever jwtService.ParseAccessToken rejects a token (malformed,
\* expired or not signed by the server), the error it returns, which Logout
\* hands to its caller unchanged, is of the Unauthorized class.
C16_ParserRejectsAsUnauthorized ==
    \A s \in Slots :
        (/\ req[s].op = "Logout" /\ Returned(s) /\ ~req[s].fault
         /\ req[s].res # NoError)
        => req[s].res.type = ErrorTypeUnauthorized

\* C17: an operation one of whose collaborator calls (a store round trip,
\* the user lookup for a reason other than no such user) failed returns an
\* error of the Internal class.
C17_CollaboratorFailureIsInternal ==
    \A s \in Slots :
        (Returned(s) /\ req[s].fault) => req[s].res.type = ErrorTypeInternal

\* C18: ParseAccessToken of the token GenerateAccessToken made for payload
\* P returns P and the expiry issue instant + access lifetime when it runs
\* before that instant, and fails when it runs at or after it.
C18_IssueVerifyRoundTrip ==
    [][\A s \in Slots :
          (req[s].op = "RoundTrip" /\ req[s].pc = "issued" /\ req'[s].pc = "done")
          => IF now < req[s].at + AccessTTL
             THEN /\ req'[s].res = NoError
                  /\ req'[s].payload = req[s].input
                  /\ req'[s].expTime = req[s].at + AccessTTL
             ELSE req'[s].res # NoError]_vars

C19_ProtectedRoutesBehindMiddleware ==
    /\ [](\A s \in Slots :
             req[s].route \in ProtectedRoutes
             => /\ req[s].invoked
                    => (/\ req[s].header.scheme = "Bearer"
                        /\ req[s].header.token # NoToken
                        /\ req[s].access = req[s].header.token
                        /\ SigValid(req[s].access)
                        /\ req[s].ctx = ContextOf(
                              [user_id |-> req[s].access.claims.user_id,
                               role |-> req[s].access.claims.role,
                               company_id |-> req[s].access.claims.company_id]))
                /\ (\/ req[s].header = NoHeader
                    \/ req[s].header.scheme # "Bearer"
                    \/ req[s].header.token = NoToken)
                    => (/\ ~req[s].invoked
                        /\ Returned(s) => StatusCode(req[s].res) = 401)
                /\ (Returned(s) /\ ~Pending(s) /\ ~req[s].invoked)
                    => req[s].res # NoError)
    /\ [][\A s \in Slots :
             /\ (~req[s].invoked /\ req'[s].invoked)
                   => (Pending(s) /\ req[s].res = NoError)
             /\ (Pending(s) /\ req[s].res # NoError /\ req'[s] # req[s])
                   => (/\ ~req'[s].invoked
                       /\ req'[s].pc = "done" /\ req'[s].res = req[s].res
                       /\ req'[s].op = "AuthMiddleware")]_vars

C19_Witness ==
    \E s \in Slots :
        /\ req[s].route = <<"DELETE", "/api/user/:id">>
        /\ req[s].header.scheme = "Bearer"
        /\ req[s].header.token \in handedAccess
        /\ req[s].op = "AuthMiddleware" /\ Returned(s)
        /\ ~req[s].invoked
        /\ req[s].res = UnauthorizedError("invalid token")

C23_ReadBackIsWrittenPayload ==
    \A s \in Slots :
        (/\ req[s].op \in {"Login", "Refresh", "RegisterEmployee",
                           "CreateCompanyWithAdmin"}
         /\ Returned(s) /\ req[s].res = NoError
         /\ RedisExists(refreshStore, req[s].pair.refresh))
        => LET f == FetchUserFromRefreshToken(refreshStore,
                                              req[s].pair.refresh, TRUE)
           IN f.err = NoError /\ f.payload = req[s].payload

\* C24: ParseToken of an access token that is validly signed, not past its
\* expiry and not in the denylist, with the denylist lookup working,
\* succeeds and returns the payload written into the token when it was
\* issued, whatever table users holds by then: the user's row may have
\* been updated or deleted since.
C24_ParseTokenTrustsIssuedPayload ==
    \A s \in Slots :
        (/\ req[s].op = "ParseToken" /\ Returned(s) /\ ~req[s].fault
         /\ req[s].access \in handedAccess
         /\ JwtParseOk(req[s].access, now)
         /\ ~RedisExists(blacklistStore, SHA256Hex(req[s].access)))
        => (/\ req[s].res = NoError
            /\ req[s].payload =
                  [user_id |-> req[s].access.claims.user_id,
                   role |-> req[s].access.claims.role,
                   company_id |-> req[s].access.claims.company_id])

C24_Witness ==
    \E s \in Slots :
        /\ req[s].op = "ParseToken" /\ Returned(s) /\ req[s].res = NoError
        /\ req[s].access \in handedAccess
        /\ req[s].payload.user_id = req[s].access.claims.user_id
        /\ \A u \in users : Itoa(u.id) # req[s].payload.user_id

\* C25: the denylist changes in two ways only: the denylist write of a
\* Logout adds the entry of that Logout's access token, and the passing of
\* time removes the entries whose expiry has been reached. No step of
\* Login, RegisterEmployee, Refresh or ParseToken changes the denylist, and
\* no step of ParseToken changes the refresh namespace.
C25_DenylistChangesOnlyThroughLogout ==
    [][/\ blacklistStore' # blacklistStore
            => \/ /\ now' = now + 1
                  /\ DOMAIN blacklistStore' =
                        {k \in DOMAIN blacklistStore : blacklistStore[k].exp > now'}
                  /\ \A k \in DOMAIN blacklistStore' :
                        blacklistStore'[k] = blacklistStore[k]
               \/ \E s \in Slots :
                     /\ req[s].op = "Logout" /\ req[s].pc = "blacklist"
                     /\ req'[s].pc = "done" /\ req'[s].res = NoError
                     /\ DOMAIN blacklistStore' =
                           DOMAIN blacklistStore \cup {SHA256Hex(req[s].access)}
                     /\ \A k \in DOMAIN blacklistStore \ {SHA256Hex(req[s].access)} :
                           blacklistStore'[k] = blacklistStore[k]
       /\ \A s \in Slots :
             (/\ req'[s] # req[s]
              /\ req'[s].op \in {"Login", "RegisterEmployee", "Refresh", "ParseToken"})
             => blacklistStore' = blacklistStore
       /\ \A s \in Slots :
             (req'[s] # req[s] /\ req'[s].op = "ParseToken")
             => refreshStore' = refreshStore]_vars

C25_Witness ==
    \E s \in Slots :
        /\ req[s].op = "ParseToken" /\ Returned(s)
        /\ req[s].res = UnauthorizedError("token has been revoked")
        /\ RedisExists(blacklistStore, SHA256Hex(req[s].access))
        /\ refreshStore # EmptyStore

\* C26: the delete of a Logout(a, r) removes the refresh entry of r only
\* when a is an access token that verifies at that moment and whose user id
\* is the one the entry of r was written for.
C26_LogoutDeletesOnlyOwnEntry ==
    [][\A s \in Slots :
          (/\ req[s].op = "Logout" /\ req[s].pc = "delete"
           /\ req'[s] # req[s]
           /\ RedisExists(refreshStore, req[s].refresh)
           /\ ~RedisExists(refreshStore', req[s].refresh))
          => (/\ JwtParseOk(req[s].access, now)
              /\ refreshStore[req[s].refresh].val = req[s].access.claims.user_id)]_vars

\* C27: a Logout that returns an error has left the refresh namespace and
\* the denylist as they were when it was called: it has removed no refresh
\* entry and has written no denylist entry.
C27_FailedLogoutChangesNothing ==
    \A s \in Slots :
        (req[s].op = "Logout" /\ Returned(s) /\ req[s].res # NoError)
        => ~req[s].wrote

\* C28: when a Logout(a, r) and a Refresh(r) are in the server together,
\* their store calls interleaved in any order, then once both have returned
\* and the Logout has returned success, the refresh namespace holds neither
\* the entry of r nor an entry written by that Refresh.
C28_LogoutWinsOverConcurrentRefresh ==
    \A s \in Slots, x \in Slots :
        (/\ req[s].op = "Logout" /\ Returned(s) /\ req[s].res = NoError
         /\ req[x].op = "Refresh" /\ Returned(x)
         /\ req[x].refresh = req[s].refresh)
        => (/\ ~RedisExists(refreshStore, req[s].refresh)
            /\ ~RedisExists(refreshStore, req[x].gen)
            /\ req[x].pair = NoPair)

C28_Witness ==
    \E s \in Slots, x \in Slots :
        /\ req[s].op = "Logout" /\ Returned(s) /\ req[s].res = NoError
        /\ req[s].wrote
        /\ req[x].op = "Refresh" /\ Returned(x)
        /\ req[x].refresh = req[s].refresh
        /\ req[x].refresh \in handedRefresh
        /\ ~req[x].afterLogout
        /\ req[x].res = NotFoundError("refresh token")

\* C29: VerifyDocument hands a document only to a requester whose company,
\* taken from the access token, is the company of the stored document row;
\* every other requester gets status red and no document, and the scan
\* count of no document of another company has gone up.
C29_VerifyDocumentOnlyOwnCompany ==
    \A s \in Slots :
        (req[s].op = "VerifyDocument" /\ Returned(s) /\ req[s].invoked)
        => LET me == Atoi(req[s].ctx.company_id).n
           IN /\ req[s].doc # NoDocument => req[s].doc.company_id = me
              /\ req[s].doc = NoDocument /\ req[s].res = NoError
                    => req[s].status = DocumentStatusRed
              /\ \A d \in req[s].docsBefore : d.company_id # me => d \in documents

\* C30: registration is all-or-nothing: when RegisterEmployee or
\* CreateCompanyWithAdmin has returned an error, the users are the rows that
\* were there when it was called, and the company the call created is not
\* among the companies.
C30_FailedRegistrationLeavesNothing ==
    \A s \in Slots :
        (/\ req[s].op \in {"RegisterEmployee", "CreateCompanyWithAdmin"}
         /\ Returned(s) /\ req[s].res # NoError)
        => /\ users = req[s].usersBefore
           /\ req[s].op = "CreateCompanyWithAdmin" => req[s].company \notin companies

====
